---- MODULE Spec2Model ----
(***************************************************************************)
(* The playbook evaluation engine of regis-cli                             *)
(* (src/regis_cli/playbook/engine.py): evaluate() and _evaluate_section()  *)
(* as a state machine over bounded playbooks and reports.                  *)
(*                                                                         *)
(* Representation.                                                         *)
(*  - A Python value is a record [t, n]: t is its type ("none", "int",     *)
(*    "bool", "dict", "list"); n is the integer, 1/0 for True/False, or    *)
(*    the number of entries of a container.                                *)
(*  - A dotted key "results.tags.total_tags" is the sequence of its        *)
(*    segments <<"results", "tags", "total_tags">> (str.split(".")).       *)
(*  - A nested report is a function from the path of every node of the     *)
(*    tree to the node's value; the elements of a list are the children    *)
(*    "0", "1", ... of the list's node.                                    *)
(*  - A JsonLogic condition is a record [op, val, path, args]: a single    *)
(*    key map {op: args}; {"var": "a.b"} keeps its path; op = "lit" is a   *)
(*    primitive operand.                                                   *)
(***************************************************************************)
EXTENDS Integers, Sequences, FiniteSets, TLC

(***************************************************************************)
(* Python values                                                           *)
(***************************************************************************)
NoneV == [t |-> "none", n |-> 0]
IntV(k) == [t |-> "int", n |-> k]
BoolV(b) == [t |-> "bool", n |-> IF b THEN 1 ELSE 0]
DictV(k) == [t |-> "dict", n |-> k]
ListV(k) == [t |-> "list", n |-> k]
\* a str of k characters
StrV(k) == [t |-> "str", n |-> k]

\* bool(v)
Truthy(v) ==
    CASE v.t = "none" -> FALSE
      [] v.t \in {"int", "bool", "dict", "list", "str"} -> v.n # 0

\* str(i) for the list indices of this model, IndexSeg[i + 1] = str(i)
IndexSeg == <<"0", "1", "2", "3", "4", "5">>

\* int(part) / int(key): the segments that parse as an integer
SegInt == [seg \in {IndexSeg[i] : i \in DOMAIN IndexSeg} |->
             (CHOOSE i \in DOMAIN IndexSeg : IndexSeg[i] = seg) - 1]

IsPrefix(p, q) == Len(p) <= Len(q) /\ SubSeq(q, 1, Len(p)) = p

(***************************************************************************)
(* Reports (the inputs of evaluate)                                        *)
(***************************************************************************)
\* {}
ReportEmpty == [p \in {} |-> NoneV]

\* {"results": {}}
ReportNoAnalyzers == (<<"results">> :> DictV(0))

\* {"results": {"tags": {"total_tags": 5}, "prov": {"signed": True}},
\*  "other": 42, "items": [{"x": None}]}
ReportFull ==
    (<<"results">> :> DictV(2))
    @@ (<<"results", "tags">> :> DictV(1))
    @@ (<<"results", "tags", "total_tags">> :> IntV(5))
    @@ (<<"results", "prov">> :> DictV(1))
    @@ (<<"results", "prov", "signed">> :> BoolV(TRUE))
    @@ (<<"other">> :> IntV(42))
    @@ (<<"items">> :> ListV(1))
    @@ (<<"items", "0">> :> DictV(1))
    @@ (<<"items", "0", "x">> :> NoneV)

\* {"results": {"tags": {"total_tags": None}, "prov": {"signed": False}},
\*  "other": 0, "score": 100, "total_scorecards": 99}
ReportNulls ==
    (<<"results">> :> DictV(2))
    @@ (<<"results", "tags">> :> DictV(1))
    @@ (<<"results", "tags", "total_tags">> :> NoneV)
    @@ (<<"results", "prov">> :> DictV(1))
    @@ (<<"results", "prov", "signed">> :> BoolV(FALSE))
    @@ (<<"other">> :> IntV(0))
    @@ (<<"score">> :> IntV(100))
    @@ (<<"total_scorecards">> :> IntV(99))

Reports == {ReportEmpty, ReportNoAnalyzers, ReportFull, ReportNulls}

\* the keys of the mapping at node p of tree, as child paths
Children(tree, p) == {q \in DOMAIN tree : Len(q) = Len(p) + 1 /\ IsPrefix(p, q)}

(***************************************************************************)
(* _flatten and the data context of evaluate                               *)
(***************************************************************************)
RECURSIVE FlattenFrom(_, _)
\* _flatten(data, prefix): the leaves below prefix, keyed by their dotted key;
\* a nested dict is recursed into, every other value (a list too) is a leaf
FlattenFrom(tree, prefix) ==
    LET kids == Children(tree, prefix)
        leaves == {q \in kids : tree[q].t # "dict"}
        RECURSIVE Merge(_)
        Merge(S) ==
            IF S = {} THEN [q \in leaves |-> tree[q]]
            ELSE LET d == CHOOSE x \in S : TRUE
                 IN FlattenFrom(tree, d) @@ Merge(S \ {d})
    IN Merge(kids \ leaves)

_flatten(tree) == FlattenFrom(tree, <<>>)

\* raw_context = _flatten(report); raw_context.update(report):
\* the flattened keys plus the report's own top-level keys
RawContext(rep) ==
    [q \in Children(rep, <<>>) |-> rep[q]] @@ _flatten(rep)

(***************************************************************************)
(* MissingDataTracker                                                      *)
(***************************************************************************)
\* MissingDataTracker(raw_context): the tracker's bookkeeping, shared by the
\* root and its children (accessed_keys, root.missing_accessed)
NewTracker == [accessed_keys |-> {}, missing_accessed |-> FALSE]

\* the mapping a tracker at path wraps: the root wraps raw_context, a child
\* wraps the nested dict found at path (the report's own object)
TrackerHas(flat, rep, path, key) ==
    IF path = <<>> THEN <<key>> \in DOMAIN flat
    ELSE Append(path, key) \in DOMAIN rep

TrackerValue(flat, rep, path, key) ==
    IF path = <<>> THEN flat[<<key>>] ELSE rep[Append(path, key)]

\* TrackerGetItem with a flag of its own in every child tracker: only a
\* lookup on the root sets the root's missing_accessed
TrackerGetItemOwnFlag(flat, rep, path, key, trk) ==
    LET full_key == Append(path, key)
        seen == [trk EXCEPT !.accessed_keys = @ \cup {full_key}]
        missed == [seen EXCEPT !.missing_accessed = @ \/ path = <<>>]
    IN IF ~TrackerHas(flat, rep, path, key)
       THEN [found |-> FALSE, val |-> NoneV, child |-> FALSE, trk |-> missed]
       ELSE LET val == TrackerValue(flat, rep, path, key)
            IN IF val.t = "none"
               THEN [found |-> TRUE, val |-> NoneV, child |-> FALSE, trk |-> missed]
               ELSE [found |-> TRUE, val |-> val, child |-> val.t = "dict",
                     trk |-> seen]

\* __getitem__(key) of the tracker at path: [found, val, child, trk]
\*   found FALSE  : KeyError (the key is recorded, the root flag is set)
\*   child TRUE   : val is a dict, returned wrapped in a child tracker
TrackerGetItem(flat, rep, path, key, trk) ==
    LET full_key == Append(path, key)
        seen == [trk EXCEPT !.accessed_keys = @ \cup {full_key}]
    IN IF ~TrackerHas(flat, rep, path, key)
       THEN [found |-> FALSE, val |-> NoneV, child |-> FALSE,
             trk |-> [seen EXCEPT !.missing_accessed = TRUE]]
       ELSE LET val == TrackerValue(flat, rep, path, key)
            IN IF val.t = "none"
               THEN [found |-> TRUE, val |-> NoneV, child |-> FALSE,
                     trk |-> [seen EXCEPT !.missing_accessed = TRUE]]
               ELSE [found |-> TRUE, val |-> val, child |-> val.t = "dict",
                     trk |-> seen]

(***************************************************************************)
(* jsonLogic (the json_logic package imported by engine.py)                *)
(*                                                                         *)
(* data is one of                                                          *)
(*   [tracked |-> TRUE,  flat |-> raw_context, tree |-> report]   pass one *)
(*   [tracked |-> FALSE, flat |-> <<>>,        tree |-> full_context]      *)
(* An evaluation returns [val, exc, trk]: the value, the exception raised  *)
(* ("none" when it returns) and the tracker's bookkeeping afterwards.      *)
(***************************************************************************)
TrackedData(flat, rep) == [tracked |-> TRUE, flat |-> flat, tree |-> rep]
PlainData(tree) == [tracked |-> FALSE, flat |-> <<>>, tree |-> tree]

\* data = data or {}: an empty MissingDataTracker is falsy (it is a dict of
\* length 0) and is replaced by a new plain dict
DataOrEmpty(data) ==
    IF data.tracked /\ DOMAIN data.flat = {}
    THEN PlainData(<<>>)
    ELSE data

RECURSIVE GetVarFrom(_, _, _, _, _, _)
\* get_var's loop "for key in str(var_name).split('.')": cur is the value
\* reached at path, wrapped says whether it is a tracker; segs are the keys
\* still to look up.  KeyError, TypeError and ValueError give not_found
\* (None); the IndexError of a list index out of range is not caught.
GetVarFrom(data, path, cur, wrapped, segs, trk) ==
    IF segs = <<>> THEN [val |-> cur, exc |-> "none", trk |-> trk]
    ELSE
    LET key == Head(segs)
        rest == Tail(segs)
        next == Append(path, key)
        not_found == [val |-> NoneV, exc |-> "none", trk |-> trk]
    IN CASE wrapped ->
              \* data[key] on a MissingDataTracker
              LET got == TrackerGetItem(data.flat, data.tree, path, key, trk)
              IN IF ~got.found
                 THEN [val |-> NoneV, exc |-> "none", trk |-> got.trk]
                 ELSE GetVarFrom(data, next, got.val, got.child, rest, got.trk)
         [] ~wrapped /\ cur.t = "dict" ->
              \* data[key] on a plain dict: KeyError when absent
              IF next \in DOMAIN data.tree
              THEN GetVarFrom(data, next, data.tree[next], FALSE, rest, trk)
              ELSE not_found
         [] ~wrapped /\ cur.t = "list" ->
              \* data[key] is a TypeError, then data[int(key)]
              IF key \notin DOMAIN SegInt THEN not_found
              ELSE IF SegInt[key] >= cur.n
                   THEN [val |-> NoneV, exc |-> "IndexError", trk |-> trk]
                   ELSE GetVarFrom(data, next, data.tree[next], FALSE, rest, trk)
         [] ~wrapped /\ cur.t \in {"none", "int", "bool"} ->
              \* data[key] is a TypeError; int(key) a ValueError or
              \* data[int(key)] a TypeError again
              not_found

\* get_var(data, var_name)
get_var(data, var_name, trk) ==
    GetVarFrom(data, <<>>, DictV(Cardinality(Children(data.tree, <<>>))),
               data.tracked, var_name, trk)

(***************************************************************************)
(* Conditions: {op: args}                                                   *)
(***************************************************************************)
Lit(v) == [op |-> "lit", val |-> v, path |-> <<>>, args |-> <<>>]
Var(p) == [op |-> "var", val |-> NoneV, path |-> p, args |-> <<>>]
Op1(o, a) == [op |-> o, val |-> NoneV, path |-> <<>>, args |-> <<a>>]
Op2(o, a, b) == [op |-> o, val |-> NoneV, path |-> <<>>, args |-> <<a, b>>]

Returns(v) == [val |-> v, exc |-> "none"]
Raises(e) == [val |-> NoneV, exc |-> e]

\* soft_equals(a, b): bool(a) is bool(b) when either is a bool, else a == b
\* (two containers are never compared by the conditions of this model)
soft_equals(a, b) ==
    CASE "bool" \in {a.t, b.t} -> Truthy(a) = Truthy(b)
      [] "bool" \notin {a.t, b.t} /\ a.t # b.t -> FALSE
      [] a.t = b.t /\ a.t \in {"none", "int"} -> a.n = b.n

\* less(a, b): with an int among the operands both go through float() and a
\* TypeError there (None, a container) gives False; without one a < b is
\* Python's own comparison, a TypeError unless both are bools
less(a, b) ==
    CASE "int" \in {a.t, b.t} ->
            IF {a.t, b.t} \subseteq {"int", "bool"}
            THEN Returns(BoolV(a.n < b.n))
            ELSE Returns(BoolV(FALSE))
      [] "int" \notin {a.t, b.t} /\ a.t = "bool" /\ b.t = "bool" ->
            Returns(BoolV(a.n < b.n))
      [] "int" \notin {a.t, b.t} /\ {a.t, b.t} \cap {"none", "dict"} # {} ->
            Raises("TypeError")

\* less(a, b) or soft_equals(a, b)
LessOrEquals(a, b) ==
    LET lt == less(a, b)
    IN IF lt.exc # "none" \/ Truthy(lt.val) THEN lt
       ELSE Returns(BoolV(soft_equals(a, b)))

\* "/": lambda a, b=None: a if b is None else float(a) / float(b)
\* (only exact quotients are represented)
Divide(a, b) ==
    CASE b.t = "none" -> Returns(a)
      [] b.t # "none" /\ ~({a.t, b.t} \subseteq {"int", "bool"}) -> Raises("TypeError")
      [] {a.t, b.t} \subseteq {"int", "bool"} /\ b.n = 0 -> Raises("ZeroDivisionError")
      [] {a.t, b.t} \subseteq {"int", "bool"} /\ b.n # 0 /\ a.n % b.n = 0 ->
            Returns(IntV(a.n \div b.n))

BinaryOps == {"==", "!=", ">", ">=", "<", "<="}

\* operations[operator](*values); an operator that is not in the table is a
\* ValueError, a wrong number of operands a TypeError
Operation(op, values) ==
    CASE op \in BinaryOps /\ Len(values) # 2 -> Raises("TypeError")
      [] op = "==" /\ Len(values) = 2 ->
            Returns(BoolV(soft_equals(values[1], values[2])))
      [] op = "!=" /\ Len(values) = 2 ->
            Returns(BoolV(~soft_equals(values[1], values[2])))
      [] op = ">" /\ Len(values) = 2 -> less(values[2], values[1])
      [] op = ">=" /\ Len(values) = 2 ->
            LET lt == less(values[2], values[1])
            IN IF lt.exc # "none" \/ Truthy(lt.val) THEN lt
               ELSE Returns(BoolV(soft_equals(values[1], values[2])))
      [] op = "<" /\ Len(values) = 2 -> less(values[1], values[2])
      [] op = "<=" /\ Len(values) = 2 -> LessOrEquals(values[1], values[2])
      [] op = "!" ->
            IF Len(values) = 1 THEN Returns(BoolV(~Truthy(values[1])))
            ELSE Raises("TypeError")
      [] op = "/" ->
            IF Len(values) = 2 THEN Divide(values[1], values[2])
            ELSE IF Len(values) = 1 THEN Returns(values[1])
            ELSE Raises("TypeError")
      [] op \notin BinaryOps \cup {"!", "/"} -> Raises("ValueError")

RECURSIVE jsonLogic(_, _, _)
RECURSIVE JsonLogicValues(_, _, _, _)
\* values = [jsonLogic(val, data) for val in values]: every operand is
\* evaluated, in order, until one raises
JsonLogicValues(args, data, trk, done) ==
    IF args = <<>> THEN [vals |-> done, exc |-> "none", trk |-> trk]
    ELSE LET r == jsonLogic(Head(args), data, trk)
         IN IF r.exc # "none"
            THEN [vals |-> done, exc |-> r.exc, trk |-> r.trk]
            ELSE JsonLogicValues(Tail(args), data, r.trk, Append(done, r.val))

\* jsonLogic(tests, data), with the bookkeeping trk of data's tracker
jsonLogic(tests, data, trk) ==
    IF tests.op = "lit" THEN [val |-> tests.val, exc |-> "none", trk |-> trk]
    ELSE
    LET d == DataOrEmpty(data)
    IN IF tests.op = "var" THEN get_var(d, tests.path, trk)
       ELSE LET vs == JsonLogicValues(tests.args, d, trk, <<>>)
            IN IF vs.exc # "none"
               THEN [val |-> NoneV, exc |-> vs.exc, trk |-> vs.trk]
               ELSE LET r == Operation(tests.op, vs.vals)
                    IN [val |-> r.val, exc |-> r.exc, trk |-> vs.trk]

(***************************************************************************)
(* Playbook definitions (the inputs of evaluate)                           *)
(***************************************************************************)
\* widget.get("condition") / section_def.get("condition") when the key is absent
NoCondition == Lit(NoneV)

\* "if condition:" -- a single-key map is truthy, a primitive is its own truth
HasCondition(c) == IF c.op = "lit" THEN Truthy(c.val) ELSE TRUE

\* {">": [{"var": "results.tags.total_tags"}, 0]}
cTagsPositive == Op2(">", Var(<<"results", "tags", "total_tags">>), Lit(IntV(0)))
\* {"==": [{"var": "results.prov.signed"}, true]}
cSigned == Op2("==", Var(<<"results", "prov", "signed">>), Lit(BoolV(TRUE)))
\* {"==": [{"var": "results.tags.total_tags"}, null]}
cTagsNull == Op2("==", Var(<<"results", "tags", "total_tags">>), Lit(NoneV))
\* {">": [{"var": "other.x"}, 0]}
cOtherX == Op2(">", Var(<<"other", "x">>), Lit(IntV(0)))
\* {"!": [{"var": "absent"}]}
cNotAbsent == Op1("!", Var(<<"absent">>))
\* {"==": [{"var": "items.0.x"}, null]}
cItemNull == Op2("==", Var(<<"items", "0", "x">>), Lit(NoneV))
\* {"!=": [{"var": "results.tags.total_tags"}, {"var": "results.prov.signed"}]}
cTagsNotSigned ==
    Op2("!=", Var(<<"results", "tags", "total_tags">>),
              Var(<<"results", "prov", "signed">>))
\* {"==": [{"var": "results.tags.total_tags"}, {"var": "results.prov.signed"}]}
cTagsEqualsSigned ==
    Op2("==", Var(<<"results", "tags", "total_tags">>),
              Var(<<"results", "prov", "signed">>))
\* {"/": [1, 0]}
cDivZero == Op2("/", Lit(IntV(1)), Lit(IntV(0)))
\* {"<": [{"var": "absent"}, true]}
cTypeError == Op2("<", Var(<<"absent">>), Lit(BoolV(TRUE)))
\* {"==": [1, 1]} and {"==": [1, 0]}
cTrue == Op2("==", Lit(IntV(1)), Lit(IntV(1)))
cFalse == Op2("==", Lit(IntV(1)), Lit(IntV(0)))
\* {">=": [{"var": "score"}, 50]}
cScoreHigh == Op2(">=", Var(<<"score">>), Lit(IntV(50)))
\* {">": [{"var": "playbook.passed_scorecards"}, 2]}
cPassedMany == Op2(">", Var(<<"playbook", "passed_scorecards">>), Lit(IntV(2)))

\* a rule: level is a level name or "none" (no level key), tags a set of names
Scorecard(name, c, level, tags) ==
    [name |-> name, condition |-> c, level |-> level, tags |-> tags]
\* a widget: value is the "value" path, by segments (<<>> without the key)
\* and subvalue the "subvalue" path of its "options" (<<>> without the key)
WidgetSub(label, c, value, subvalue) ==
    [label |-> label, condition |-> c, value |-> value, subvalue |-> subvalue]
Widget(label, c, value) == WidgetSub(label, c, value, <<>>)
\* _LEVEL_ORDER, and 0 for a name that is not in it
_LEVEL_ORDER == ("bronze" :> 1) @@ ("silver" :> 2) @@ ("gold" :> 3)
DefaultOrder(name) == IF name \in DOMAIN _LEVEL_ORDER THEN _LEVEL_ORDER[name] ELSE 0

\* an entry of a section's "levels": without and with an "order" key
Level(name) == [name |-> name, order |-> DefaultOrder(name)]
LevelOrdered(name, order) == [name |-> name, order |-> order]

\* a section: levels is the "levels" list
Section(name, c, levels, scorecards, widgets) ==
    [name |-> name, condition |-> c, levels |-> levels,
     scorecards |-> scorecards, widgets |-> widgets]

\* the section with its keys in the order of the definition, and its
\* "display" mapping: the keys of display in order, and display["widgets"]
Laid(section, keys, display_keys, display_widgets) ==
    [name |-> section.name, condition |-> section.condition,
     levels |-> section.levels, scorecards |-> section.scorecards,
     widgets |-> section.widgets, keys |-> keys,
     display_keys |-> display_keys, display_widgets |-> display_widgets]

SecChecks ==
  Laid(
    Section("checks", NoCondition, << Level("gold"), Level("silver") >>,
        << Scorecard("has-tags", cTagsPositive, "gold", {"security"}),
           Scorecard("signed", cSigned, "gold", {"security"}),
           Scorecard("other-x", cOtherX, "silver", {"security", "hygiene"}) >>,
        << Widget("tags", cTagsPositive, <<"results", "tags", "total_tags">>),
           WidgetSub("always", NoCondition, <<"score">>, <<"total_scorecards">>),
           Widget("broken", cDivZero, <<>>),
           Widget("passed", NoCondition, <<"passed_scorecards">>) >>),
    <<"name", "levels", "scorecards", "widgets">>, <<>>, <<>>)

SecGated ==
  Laid(
    Section("gated", cSigned, <<>>,
        << Scorecard("div", cDivZero, "none", {}),
           Scorecard("ok", cTagsEqualsSigned, "gold", {}) >>,
        << Widget("other-x", cOtherX, <<"other", "x">>),
           Widget("type-error", cTypeError, <<>>) >>),
    <<"name", "condition", "display", "scorecards", "widgets">>,
    <<"widgets", "flavor", "analyzers">>,
    << Widget("extra", NoCondition, <<"other">>) >>)

SecSelf ==
  Laid(
    Section("self", cScoreHigh, << Level("custom"), LevelOrdered("silver", 0) >>,
        << Scorecard("not-absent", cNotAbsent, "silver", {}),
           Scorecard("tags-null", cTagsNull, "silver", {"hygiene"}),
           Scorecard("item-null", cItemNull, "custom", {"hygiene"}) >>,
        << Widget("passed-many", cPassedMany, <<"playbook", "passed_scorecards">>),
           Widget("score-high", cScoreHigh, <<"score">>) >>),
    <<"name", "widgets", "condition", "scorecards", "levels">>, <<>>, <<>>)

SecEmpty ==
  Laid(
    Section("empty", NoCondition, << Level("gold") >>, <<>>,
        << Widget("note", cFalse, <<"score">>) >>),
    <<"name", "levels", "display", "widgets">>, <<"analyzers">>, <<>>)

SecBroken ==
  Laid(
    Section("broken", cDivZero, <<>>, << Scorecard("ok", cTrue, "none", {}) >>, <<>>),
    <<"name", "condition", "scorecards">>, <<>>, <<>>)

SecEight ==
  Laid(
    Section("eight", cTypeError, << Level("gold") >>,
        << Scorecard("r1", cTagsPositive, "none", {"security"}),
           Scorecard("r2", cSigned, "none", {"security"}),
           Scorecard("r3", cTrue, "gold", {"security", "hygiene"}),
           Scorecard("r4", cFalse, "gold", {"security", "hygiene"}),
           Scorecard("r5", cFalse, "silver", {"security", "hygiene"}),
           Scorecard("r6", cTypeError, "none", {"security"}),
           Scorecard("r7", cTagsNotSigned, "none", {"security"}),
           Scorecard("r8", cFalse, "none", {"security"}) >>,
        << Widget("not-absent", cNotAbsent, <<"items", "0", "x">>) >>),
    <<"name", "scorecards", "levels", "condition", "widgets">>, <<>>, <<>>)

SectionDefs == {SecChecks, SecGated, SecSelf, SecEmpty, SecBroken, SecEight}

\* the most sections a playbook holds, and the most pages
MaxSections == 2
MaxPages == 2

SectionSeqs(n) == UNION {[1..k -> SectionDefs] : k \in 0..n}

\* a page definition with a "title" key, and one without
Page(title, sections) ==
    [has_title |-> TRUE, title |-> title, sections |-> sections]
UntitledPage(sections) ==
    [has_title |-> FALSE, title |-> "", sections |-> sections]

\* page_def.get("title", "Default")
PageTitle(page_def) == IF page_def.has_title THEN page_def.title ELSE "Default"

\* the titles of the pages of a layout, by the number of pages that follow
PageTitles == <<"last", "third", "second", "first">>

RECURSIVE Splits(_, _)
\* the ways to lay the sections ss out on exactly k pages, none of them
\* empty, each page with a title of its own
Splits(ss, k) ==
    IF k = 0 THEN (IF ss = <<>> THEN {<<>>} ELSE {})
    ELSE UNION {{<<Page(PageTitles[k], SubSeq(ss, 1, c))>> \o rest :
                    rest \in Splits(SubSeq(ss, c + 1, Len(ss)), k - 1)} :
                c \in 1..Len(ss)}

\* the values of the "pages" key: no page, one page without sections, or
\* the sections of a playbook laid out on pages
PageSeqs ==
    {<< Page("page", <<>>) >>}
    \cup UNION {Splits(ss, k) : ss \in SectionSeqs(MaxSections), k \in 0..MaxPages}

\* the values of the "pages" key of the playbooks that give "sections" too
PagesBesideSections ==
    { <<>>,
      << Page("only", <<>>) >>,
      << UntitledPage(<< SecEmpty >>) >>,
      << Page("second", << SecGated, SecSelf >>), Page("last", << SecChecks >>) >> }

\* url templates of playbook-level links
UrlNotString == [kind |-> "nonstr", path |-> <<>>]
\* "https://example.org"
UrlPlain == [kind |-> "plain", path |-> <<>>]
\* "{results[tags][total_tags]}"
UrlItems == [kind |-> "items", path |-> <<"results", "tags", "total_tags">>]
\* "{other[x]}"
UrlItemOfScalar == [kind |-> "items", path |-> <<"other", "x">>]
\* "{results.tags}"
UrlAttribute == [kind |-> "attr", path |-> <<"results", "tags">>]
\* "{"
UrlMalformed == [kind |-> "malformed", path |-> <<>>]

Link(label, url) == [label |-> label, url |-> url]

LinkSeqs ==
    { <<>>,
      << Link("number", UrlNotString), Link("home", UrlPlain),
         Link("tags", UrlItems), Link("bad", UrlMalformed) >>,
      << Link("home", UrlPlain), Link("attr", UrlAttribute) >>,
      << Link("scalar", UrlItemOfScalar) >> }

\* a playbook: has_pages / has_sections say whether the key is present
Playbooks ==
    {[has_pages |-> FALSE, pages |-> <<>>, has_sections |-> FALSE,
      sections |-> <<>>, links |-> ls] : ls \in LinkSeqs}
    \cup {[has_pages |-> FALSE, pages |-> <<>>, has_sections |-> TRUE,
           sections |-> ss, links |-> ls] :
             ss \in SectionSeqs(MaxSections), ls \in LinkSeqs}
    \cup {[has_pages |-> TRUE, pages |-> ps, has_sections |-> FALSE,
           sections |-> <<>>, links |-> <<>>] : ps \in PageSeqs}
    \cup {[has_pages |-> TRUE, pages |-> ps, has_sections |-> TRUE,
           sections |-> << SecChecks, SecEight >>, links |-> <<>>] :
             ps \in PagesBesideSections}

(***************************************************************************)
(* _evaluate_section                                                       *)
(***************************************************************************)
\* the float passed / total * 100 is not the exact quotient at two of the
\* ties a total up to 260 can give: for passed / total = 23 / 40 it is just
\* below 57.5, for 109 / 200 just above 54.5
FloatBelowTie(num, den) == num * 40 = 2300 * den
FloatAboveTie(num, den) == num * 200 = 10900 * den

\* round(x) of Python 3 for the float x = num / den: to the nearest integer,
\* a tie to the even one
PyRound(num, den) ==
    LET q == num \div den
        r == num % den
    IN IF 2 * r < den THEN q
       ELSE IF 2 * r > den THEN q + 1
       ELSE IF FloatBelowTie(num, den) THEN q
       ELSE IF FloatAboveTie(num, den) THEN q + 1
       ELSE IF q % 2 = 0 THEN q ELSE q + 1

\* what passed / total would be for total = 0 were it ever evaluated
ZeroDivision == 0 - 1

\* Score with int() in the place of round()
ScoreTruncated(passed, total) ==
    IF total # 0 THEN (passed * 100) \div total ELSE 0

\* Score without the "if total else 0" guard
ScoreUnguarded(passed, total) ==
    IF total # 0 THEN PyRound(passed * 100, total) ELSE ZeroDivision

\* round(passed / total * 100) if total else 0
Score(passed, total) ==
    IF total # 0 THEN PyRound(passed * 100, total) ELSE 0

\* the pieces of a details string
Text(t) == [kind |-> "text", text |-> t, path |-> <<>>, val |-> NoneV]
\* "MISSING" / str(condition) for a condition that is not a dict
LitPart(v) ==
    [kind |-> IF v.t = "none" THEN "missing" ELSE "lit", text |-> "",
     path |-> <<>>, val |-> v]
\* "path (MISSING)" when val is None, "path (val)" otherwise
VarPart(path, val) ==
    [kind |-> IF val.t = "none" THEN "var-missing" ELSE "var-value", text |-> "",
     path |-> path, val |-> val]

\* context.get(args) on the root tracker: the whole dotted name is one key of
\* raw_context; a KeyError gives the default, None
TrackerGet(flat, path) == IF path \in DOMAIN flat THEN flat[path] ELSE NoneV

RECURSIVE JoinParts(_, _, _, _)
\* sep.join(before + p + after for p in parts)
JoinParts(parts, sep, before, after) ==
    IF parts = <<>> THEN <<>>
    ELSE before \o Head(parts) \o after
         \o (IF Len(parts) = 1 THEN <<>> ELSE << Text(sep) >>)
         \o JoinParts(Tail(parts), sep, before, after)

RECURSIVE _stringify_condition(_, _)
\* _stringify_condition(condition, context), as the sequence of its pieces
_stringify_condition(condition, flat) ==
    IF condition.op = "lit" THEN << LitPart(condition.val) >>
    ELSE IF condition.op = "var"
    THEN << VarPart(condition.path, TrackerGet(flat, condition.path)) >>
    ELSE
    LET op == condition.op
        parts == [i \in 1..Len(condition.args) |->
                     _stringify_condition(condition.args[i], flat)]
        call == << Text(op), Text("(") >> \o JoinParts(parts, ", ", <<>>, <<>>)
                \o << Text(")") >>
    IN CASE op \in BinaryOps ->
              IF Len(parts) >= 2
              THEN parts[1] \o << Text(op) >> \o parts[2]
              ELSE call
         [] op = "in" /\ Len(parts) = 2 ->
              parts[1] \o << Text("in") >> \o parts[2]
         [] op = "!" /\ Len(parts) = 1 ->
              << Text("!(") >> \o parts[1] \o << Text(")") >>
         [] op = "and" ->
              JoinParts(parts, " and ", << Text("(") >>, << Text(")") >>)
         [] op = "or" ->
              JoinParts(parts, " or ", << Text("(") >>, << Text(")") >>)
         [] OTHER -> call

\* the names the model sorts, in the order of Python's str comparison
NamesInOrder == <<"hygiene", "prov", "security", "tags">>
NameRank(name) == CHOOSE i \in 1..Len(NamesInOrder) : NamesInOrder[i] = name

\* the hash seed of the interpreter decides the order in which a set of
\* strings is iterated
HashSeeds == {"ascending", "descending"}

\* the names in the order a seed makes a set iterate
IterationOrder(seed) ==
    IF seed = "ascending" THEN NamesInOrder
    ELSE [i \in 1..Len(NamesInOrder) |-> NamesInOrder[Len(NamesInOrder) + 1 - i]]

\* "for x in a_set": the elements in the order the seed gives
SetIteration(S, seed) == SelectSeq(IterationOrder(seed), LAMBDA name : name \in S)

\* list(names) in the place of sorted(names)
unsorted(names) == names

\* sorted(names), for names without duplicates
sorted(names) ==
    SelectSeq(NamesInOrder, LAMBDA name : \E i \in 1..Len(names) : names[i] = name)

\* EvaluateScorecard with an except branch that reads the tracker's flag
\* instead of setting incomplete = True
EvaluateScorecardTrustingTracker(scorecard, flat, rep, seed) ==
    LET r == jsonLogic(scorecard.condition, TrackedData(flat, rep), NewTracker)
        passed == IF r.exc = "none" THEN Truthy(r.val) ELSE FALSE
        incomplete == r.trk.missing_accessed
    IN [name |-> scorecard.name,
        level |-> scorecard.level,
        tags |-> scorecard.tags,
        passed |-> passed,
        status |-> IF incomplete THEN "incomplete"
                   ELSE IF passed THEN "passed" ELSE "failed",
        analyzers |-> sorted(SetIteration(
                        {key[2] : key \in {k \in r.trk.accessed_keys :
                                              Len(k) > 1 /\ k[1] = "results"}},
                        seed)),
        condition |-> scorecard.condition,
        details |-> _stringify_condition(scorecard.condition, flat)]

\* one iteration of "for scorecard in scorecards_defs"
\* scorecard_results.append(...): the entry of a rule whose condition
\* evaluated to r (value, exception, tracker bookkeeping)
ScorecardResult(scorecard, r, flat, seed) ==
    LET passed == IF r.exc = "none" THEN Truthy(r.val) ELSE FALSE
        incomplete == IF r.exc = "none" THEN r.trk.missing_accessed ELSE TRUE
    IN [name |-> scorecard.name,
        level |-> scorecard.level,
        tags |-> scorecard.tags,
        passed |-> passed,
        status |-> IF incomplete THEN "incomplete"
                   ELSE IF passed THEN "passed" ELSE "failed",
        analyzers |-> sorted(SetIteration(
                        {key[2] : key \in {k \in r.trk.accessed_keys :
                                              Len(k) > 1 /\ k[1] = "results"}},
                        seed)),
        condition |-> scorecard.condition,
        details |-> _stringify_condition(scorecard.condition, flat)]

EvaluateScorecard(scorecard, flat, rep, seed) ==
    ScorecardResult(scorecard,
                    jsonLogic(scorecard.condition, TrackedData(flat, rep), NewTracker),
                    flat, seed)

\* the test both gating sites make in pass one: TRUE when the element is
\* dropped ("continue").  Not active and nothing missing, or an exception
\* and nothing missing.
GateDrops(condition, flat, rep) ==
    /\ HasCondition(condition)
    /\ LET r == jsonLogic(condition, TrackedData(flat, rep), NewTracker)
       IN IF r.exc = "none"
          THEN ~Truthy(r.val) /\ ~r.trk.missing_accessed
          ELSE ~r.trk.missing_accessed

\* a path expression: a str, by its characters (a key of the data written
\* without separators counts as one character), or a value that is no str
PathStr(chars) == [is_str |-> TRUE, chars |-> chars, val |-> NoneV]
NotStr(v) == [is_str |-> FALSE, chars |-> <<>>, val |-> v]

RECURSIVE Dotted(_)
\* ".".join(names)
Dotted(names) ==
    IF Len(names) <= 1 THEN names
    ELSE << Head(names), "." >> \o Dotted(Tail(names))

RECURSIVE StripLeft(_)
StripLeft(chars) ==
    IF chars # <<>> /\ Head(chars) \in {"{", "}", " "}
    THEN StripLeft(Tail(chars)) ELSE chars

RECURSIVE StripRight(_)
StripRight(chars) ==
    IF chars # <<>> /\ chars[Len(chars)] \in {"{", "}", " "}
    THEN StripRight(SubSeq(chars, 1, Len(chars) - 1)) ELSE chars

\* path.strip("{} ")
Strip(chars) == StripRight(StripLeft(chars))

RECURSIVE SplitFrom(_, _)
\* .replace("[", ".").replace("]", "").split("."): part is the part that the
\* characters read so far have begun
SplitFrom(chars, part) ==
    IF chars = <<>> THEN << part >>
    ELSE IF Head(chars) \in {".", "["} THEN << part >> \o SplitFrom(Tail(chars), <<>>)
    ELSE IF Head(chars) = "]" THEN SplitFrom(Tail(chars), part)
    ELSE SplitFrom(Tail(chars), Append(part, Head(chars)))

\* parts = clean_path.split(".")
Parts(chars) == SplitFrom(Strip(chars), <<>>)

RECURSIVE KeyOf(_)
\* the part as a str
KeyOf(part) == IF part = <<>> THEN "" ELSE Head(part) \o KeyOf(Tail(part))

Digits == ("0" :> 0) @@ ("1" :> 1) @@ ("2" :> 2) @@ ("3" :> 3) @@ ("4" :> 4)
          @@ ("5" :> 5) @@ ("6" :> 6) @@ ("7" :> 7) @@ ("8" :> 8) @@ ("9" :> 9)

RECURSIVE DigitsValue(_, _)
DigitsValue(part, acc) ==
    IF part = <<>> THEN acc
    ELSE DigitsValue(Tail(part), 10 * acc + Digits[Head(part)])

AllDigits(part) == part # <<>> /\ \A i \in 1..Len(part) : part[i] \in DOMAIN Digits

\* int(part) does not raise ValueError: digits, after a sign or not
IsInt(part) ==
    \/ AllDigits(part)
    \/ Len(part) > 1 /\ part[1] \in {"-", "+"} /\ AllDigits(Tail(part))

\* int(part)
IntOf(part) ==
    IF part[1] = "-" THEN 0 - DigitsValue(Tail(part), 0)
    ELSE IF part[1] = "+" THEN DigitsValue(Tail(part), 0)
    ELSE DigitsValue(part, 0)

\* the value at a node of the context; the context itself at the root
ValueAt(tree, path) ==
    IF path = <<>> THEN DictV(Cardinality(Children(tree, <<>>))) ELSE tree[path]

RECURSIVE ResolvePathFromKeepingEmpty(_, _, _)
\* ResolvePathFrom without "if not part: continue"
ResolvePathFromKeepingEmpty(tree, path, parts) ==
    IF parts = <<>> THEN ValueAt(tree, path)
    ELSE LET part == Head(parts)
             cur == ValueAt(tree, path)
         IN CASE cur.t = "dict" ->
                   IF Append(path, KeyOf(part)) \in DOMAIN tree
                   THEN ResolvePathFromKeepingEmpty(tree, Append(path, KeyOf(part)),
                                                    Tail(parts))
                   ELSE NoneV
              [] cur.t = "list" ->
                   IF IsInt(part) /\ 0 <= IntOf(part) /\ IntOf(part) < cur.n
                   THEN ResolvePathFromKeepingEmpty(
                           tree, Append(path, IndexSeg[IntOf(part) + 1]), Tail(parts))
                   ELSE NoneV
              [] cur.t \notin {"dict", "list"} -> NoneV

RECURSIVE ResolvePathFrom(_, _, _)
\* the loop "for part in parts" of _resolve_path: val is the value at path
\* (path = <<>>: the context itself), parts the parts still to look up
ResolvePathFrom(tree, path, parts) ==
    IF parts = <<>> THEN ValueAt(tree, path)
    ELSE IF Head(parts) = <<>> THEN ResolvePathFrom(tree, path, Tail(parts))
    ELSE LET part == Head(parts)
             cur == ValueAt(tree, path)
         IN CASE cur.t = "dict" ->
                   \* val.get(part): None for a key that is absent, and None
                   \* whatever parts follow
                   IF Append(path, KeyOf(part)) \in DOMAIN tree
                   THEN ResolvePathFrom(tree, Append(path, KeyOf(part)), Tail(parts))
                   ELSE NoneV
              [] cur.t = "list" ->
                   \* val[idx] if 0 <= idx < len(val) else None; a part
                   \* that is no integer returns None
                   IF IsInt(part) /\ 0 <= IntOf(part) /\ IntOf(part) < cur.n
                   THEN ResolvePathFrom(tree, Append(path, IndexSeg[IntOf(part) + 1]),
                                        Tail(parts))
                   ELSE NoneV
              [] cur.t \notin {"dict", "list"} -> NoneV

\* _resolve_path(path, context) for a path without "|" and without "{{ }}";
\* the top-level keys of raw_context that no split part can name (the flattened
\* ones hold a dot) leave the nested report as the context walked
_resolve_path(path, tree) ==
    IF ~path.is_str THEN path.val
    ELSE ResolvePathFrom(tree, <<>>, Parts(path.chars))

RECURSIVE ResolveWidgets(_, _, _)
\* "for widget in raw_widgets": the widgets kept, in order
ResolveWidgets(widgets, flat, rep) ==
    IF widgets = <<>> THEN <<>>
    ELSE LET w == Head(widgets)
             rest == ResolveWidgets(Tail(widgets), flat, rep)
             resolved == [label |-> w.label, condition |-> w.condition,
                          value |-> w.value, subvalue |-> w.subvalue,
                          resolved_value |->
                             IF w.value # <<>>
                             THEN _resolve_path(PathStr(Dotted(w.value)), rep)
                             ELSE NoneV,
                          resolved_subvalue |->
                             IF w.subvalue # <<>>
                             THEN _resolve_path(PathStr(Dotted(w.subvalue)), rep)
                             ELSE NoneV]
         IN IF GateDrops(w.condition, flat, rep) THEN rest ELSE <<resolved>> \o rest

\* PassedCount counting the results whose status is "passed"
PassedCountByStatus(results) ==
    Cardinality({i \in 1..Len(results) : results[i].status = "passed"})

\* sum(1 for r in scorecard_results if r["passed"])
PassedCount(results) == Cardinality({i \in 1..Len(results) : results[i].passed})

\* {"total": ..., "passed": ..., "percentage": round(passed / total * 100)}
\* of the rule results at the indices members (never empty)
Summary(results, members) ==
    LET passed == Cardinality({i \in members : results[i].passed})
    IN [total |-> Cardinality(members),
        passed |-> passed,
        percentage |-> PyRound(passed * 100, Cardinality(members))]

\* levels_defined: the order of every level name of section.get("levels")
LevelsDefined(section) ==
    [name \in {section.levels[i].name : i \in 1..Len(section.levels)} |->
        LET last == CHOOSE i \in 1..Len(section.levels) :
                       /\ section.levels[i].name = name
                       /\ \A k \in (i + 1)..Len(section.levels) :
                             section.levels[k].name # name
        IN section.levels[last].order]

\* the names of levels_defined in the dict's insertion order
LevelNames(section) ==
    LET firsts == SelectSeq([i \in 1..Len(section.levels) |-> i],
                     LAMBDA i : \A k \in 1..(i - 1) :
                                   section.levels[k].name # section.levels[i].name)
    IN [i \in 1..Len(firsts) |-> section.levels[firsts[i]].name]

RECURSIVE SortedByOrder(_, _)
\* sorted(names, key=lambda n: order[n]): ascending, equal keys keep their order
SortedByOrder(names, order) ==
    IF names = <<>> THEN <<>>
    ELSE LET least == CHOOSE i \in 1..Len(names) :
                         /\ \A k \in 1..Len(names) : order[names[i]] <= order[names[k]]
                         /\ \A k \in 1..(i - 1) : order[names[k]] > order[names[i]]
             others == [k \in 1..(Len(names) - 1) |->
                           IF k < least THEN names[k] ELSE names[k + 1]]
         IN <<names[least]>> \o SortedByOrder(others, order)

\* LevelsSummary counting into a level the rules of the levels below it too
LevelsSummaryCumulative(section, results) ==
    LET order == LevelsDefined(section)
        of(level) == {i \in 1..Len(results) :
                        /\ results[i].level \in DOMAIN order
                        /\ order[results[i].level] <= order[level]}
    IN [level \in {l \in DOMAIN order : of(l) # {}} |-> Summary(results, of(level))]

\* levels_summary: an entry for every defined level that has rule results
LevelsSummary(section, results) ==
    LET of(level) == {i \in 1..Len(results) : results[i].level = level}
        levels_defined == DOMAIN LevelsDefined(section)
    IN [level \in {l \in levels_defined : of(l) # {}} |-> Summary(results, of(level))]

\* the keys of levels_summary in the dict's order: the loop inserts them in
\* the order of sorted(levels_defined, key=...)
LevelsSummaryKeys(section, results) ==
    SelectSeq(SortedByOrder(LevelNames(section), LevelsDefined(section)),
              LAMBDA l : \E i \in 1..Len(results) : results[i].level = l)

\* TagsSummary counting a rule under one of its tags only
TagsSummarySingleBucket(results) ==
    LET first(i) == CHOOSE t \in results[i].tags : TRUE
        of(tag) == {i \in 1..Len(results) :
                      results[i].tags # {} /\ first(i) = tag}
        tags_defined == UNION {results[i].tags : i \in 1..Len(results)}
    IN [tag \in {t \in tags_defined : of(t) # {}} |-> Summary(results, of(tag))]

\* tags_summary: an entry for every tag a rule result carries
TagsSummary(results) ==
    LET of(tag) == {i \in 1..Len(results) : tag \in results[i].tags}
        tags_defined == UNION {results[i].tags : i \in 1..Len(results)}
    IN [tag \in tags_defined |-> Summary(results, of(tag))]

\* render_order.append(key) unless key is in it already
AddKey(order, key) ==
    IF \E i \in 1..Len(order) : order[i] = key THEN order ELSE Append(order, key)

RECURSIVE FromDisplay(_, _)
\* "for display_key in display_def": analyzers and widgets are listed
FromDisplay(order, display_keys) ==
    IF display_keys = <<>> THEN order
    ELSE FromDisplay(IF Head(display_keys) \in {"analyzers", "widgets"}
                     THEN AddKey(order, Head(display_keys)) ELSE order,
                     Tail(display_keys))

RECURSIVE FromKeys(_, _, _)
\* "for key in section"
FromKeys(order, keys, display_keys) ==
    IF keys = <<>> THEN order
    ELSE FromKeys(CASE Head(keys) = "display" -> FromDisplay(order, display_keys)
                    [] Head(keys) \in {"levels", "scorecards", "widgets"} ->
                          AddKey(order, Head(keys))
                    [] OTHER -> order,
                  Tail(keys), display_keys)

\* the list with "tags" inserted at the index of "scorecards"
InsertTags(order) ==
    LET idx == CHOOSE i \in 1..Len(order) : order[i] = "scorecards"
    IN SubSeq(order, 1, idx - 1) \o <<"tags">> \o SubSeq(order, idx, Len(order))

\* RenderOrder appending "tags" whenever there is a tag summary
RenderOrderTagsLast(section, tags_summary) ==
    LET order == FromKeys(<<>>, section.keys, section.display_keys)
    IN IF DOMAIN tags_summary # {} THEN Append(order, "tags") ELSE order

\* render_order
RenderOrder(section, tags_summary) ==
    LET order == FromKeys(<<>>, section.keys, section.display_keys)
        listed(key) == \E i \in 1..Len(order) : order[i] = key
    IN IF DOMAIN tags_summary # {} /\ listed("scorecards") THEN InsertTags(order)
       ELSE IF DOMAIN tags_summary # {} /\ ~listed("tags") THEN Append(order, "tags")
       ELSE order

\* raw_widgets: section["widgets"], then display["widgets"]
RawWidgets(section) == section.widgets \o section.display_widgets

\* the keys of tags_summary in the dict's order: "for tag_name in
\* sorted(tags_defined)"
TagsSummaryKeys(results, seed) ==
    sorted(SetIteration(UNION {results[i].tags : i \in 1..Len(results)}, seed))

\* section_result, built from the results of the rule loop
SectionResult(section, scorecard_results, flat, rep, seed) ==
    LET passed_count == PassedCount(scorecard_results)
        total == Len(scorecard_results)
    IN [name |-> section.name,
        score |-> Score(passed_count, total),
        total_scorecards |-> total,
        passed_scorecards |-> passed_count,
        levels_summary |-> LevelsSummary(section, scorecard_results),
        levels_summary_keys |-> LevelsSummaryKeys(section, scorecard_results),
        tags_summary |-> TagsSummary(scorecard_results),
        tags_summary_keys |-> TagsSummaryKeys(scorecard_results, seed),
        scorecards |-> scorecard_results,
        condition |-> section.condition,
        widgets |-> ResolveWidgets(RawWidgets(section), flat, rep),
        render_order |-> RenderOrder(section, TagsSummary(scorecard_results))]

RECURSIVE RulesReusingTracker(_, _, _, _, _)
\* the rule loop with one tracker made before the loop: each rule starts from
\* the accessed_keys and the missing_accessed the rules before it left
RulesReusingTracker(scorecards, flat, rep, seed, trk) ==
    IF scorecards = <<>> THEN <<>>
    ELSE LET r == jsonLogic(Head(scorecards).condition, TrackedData(flat, rep), trk)
         IN << ScorecardResult(Head(scorecards), r, flat, seed) >>
            \o RulesReusingTracker(Tail(scorecards), flat, rep, seed, r.trk)

\* _evaluate_section with "tracker = MissingDataTracker(raw_context)" moved
\* out of the rule loop
_evaluate_sectionReusingTracker(section, flat, rep, seed) ==
    SectionResult(section,
                  RulesReusingTracker(section.scorecards, flat, rep, seed, NewTracker),
                  flat, rep, seed)

_evaluate_section(section, flat, rep, seed) ==
    SectionResult(section,
                  [i \in 1..Len(section.scorecards) |->
                      EvaluateScorecard(section.scorecards[i], flat, rep, seed)],
                  flat, rep, seed)

(***************************************************************************)
(* Playbook-level links: url_tmpl.format, the report as keyword arguments  *)
(***************************************************************************)
RECURSIVE FormatField(_, _, _, _)
\* the lookups of one replacement field {a[b][c]} or {a.b}: the exception
\* raised, "none" when the field formats
FormatField(rep, path, segs, kind) ==
    IF segs = <<>> THEN "none"
    ELSE LET next == Append(path, Head(segs))
         IN CASE path = <<>> ->
                   \* the field's first name is a keyword argument
                   IF next \in DOMAIN rep
                   THEN FormatField(rep, next, Tail(segs), kind)
                   ELSE "KeyError"
              [] path # <<>> /\ kind = "attr" -> "AttributeError"
              [] path # <<>> /\ kind = "items" /\ rep[path].t = "dict" ->
                   IF next \in DOMAIN rep
                   THEN FormatField(rep, next, Tail(segs), kind)
                   ELSE "KeyError"
              [] path # <<>> /\ kind = "items" /\ rep[path].t = "list" ->
                   IF Head(segs) \notin DOMAIN SegInt THEN "TypeError"
                   ELSE IF next \in DOMAIN rep
                        THEN FormatField(rep, next, Tail(segs), kind)
                        ELSE "IndexError"
              [] path # <<>> /\ kind = "items"
                     /\ rep[path].t \in {"none", "int", "bool"} -> "TypeError"

\* url_tmpl.format with the report as keyword arguments
FormatUrl(url, rep) ==
    CASE url.kind = "plain" -> "none"
      [] url.kind = "malformed" -> "ValueError"
      [] url.kind \in {"items", "attr"} -> FormatField(rep, <<>>, url.path, url.kind)

\* except (KeyError, IndexError, ValueError)
LinkErrorsCaught == {"KeyError", "IndexError", "ValueError"}

RECURSIVE ResolveLinksFrom(_, _, _)
\* "for link_def in playbook.get('links', [])": [links, exc] -- the links
\* resolved, or the exception that leaves the loop
ResolveLinksFrom(links, rep, done) ==
    IF links = <<>> THEN [links |-> done, exc |-> "none"]
    ELSE LET l == Head(links)
         IN IF l.url.kind = "nonstr" THEN ResolveLinksFrom(Tail(links), rep, done)
            ELSE LET e == FormatUrl(l.url, rep)
                 IN IF e = "none"
                    THEN ResolveLinksFrom(Tail(links), rep, Append(done, l))
                    ELSE IF e \in LinkErrorsCaught
                         THEN ResolveLinksFrom(Tail(links), rep, done)
                         ELSE [links |-> done, exc |-> e]

(***************************************************************************)
(* The second pass: full_context                                           *)
(***************************************************************************)
Prefixed(prefix, tree) ==
    [q \in {prefix \o r : r \in DOMAIN tree} |->
        tree[SubSeq(q, Len(prefix) + 1, Len(q))]]

\* one entry of result["pages"]
PageTree(page) ==
    (<<"title">> :> StrV(4))
    @@ (<<"slug">> :> NoneV)
    @@ (<<"score">> :> IntV(page.score))
    @@ (<<"total_scorecards">> :> IntV(page.total_scorecards))
    @@ (<<"passed_scorecards">> :> IntV(page.passed_scorecards))
    @@ (<<"sections">> :> ListV(Len(page.sections)))

RECURSIVE PagesTree(_, _)
PagesTree(pages, i) ==
    IF i > Len(pages) THEN [q \in {} |-> NoneV]
    ELSE (<<IndexSeg[i]>> :> DictV(6))
         @@ Prefixed(<<IndexSeg[i]>>, PageTree(pages[i]))
         @@ PagesTree(pages, i + 1)

\* result: playbook_name, score, total_scorecards, passed_scorecards, pages, slug
ResultTree(res, pages) ==
    (<<"playbook_name">> :> StrV(7))
    @@ (<<"score">> :> IntV(res.score))
    @@ (<<"total_scorecards">> :> IntV(res.total_scorecards))
    @@ (<<"passed_scorecards">> :> IntV(res.passed_scorecards))
    @@ (<<"pages">> :> ListV(Len(pages)))
    @@ Prefixed(<<"pages">>, PagesTree(pages, 1))
    @@ (<<"slug">> :> NoneV)

\* the top-level keys full_context sets over the report's
FullContextKeys ==
    {"playbook_name", "score", "total_scorecards", "passed_scorecards", "pages",
     "slug", "playbook", "playbooks"}

\* {**report, **result, "playbook": result, "playbooks": [result],
\*  "score": result.get("score", 0)}; pages is the live result["pages"]
FullContext(rep, res, pages) ==
    LET rt == ResultTree(res, pages)
    IN rt
       @@ (<<"playbook">> :> DictV(6))
       @@ Prefixed(<<"playbook">>, rt)
       @@ (<<"playbooks">> :> ListV(1))
       @@ (<<"playbooks", "0">> :> DictV(6))
       @@ Prefixed(<<"playbooks", "0">>, rt)
       @@ [q \in {x \in DOMAIN rep : x[1] \notin FullContextKeys} |-> rep[q]]

\* SecondPassDrops without the "except Exception: continue"
SecondPassKeepsOnError(condition, full_context) ==
    /\ HasCondition(condition)
    /\ LET r == jsonLogic(condition, PlainData(full_context), NewTracker)
       IN r.exc = "none" /\ ~Truthy(r.val)

\* the test both gating sites make in the second pass: TRUE when the element
\* is dropped.  "if not jsonLogic(condition, full_context): continue", and
\* "except Exception: continue"
SecondPassDrops(condition, full_context) ==
    /\ HasCondition(condition)
    /\ LET r == jsonLogic(condition, PlainData(full_context), NewTracker)
       IN r.exc # "none" \/ ~Truthy(r.val)

\* val_path.startswith(p) for p in ["playbook", "score", "pages", "{{"]:
\* the first segments of the model's paths that start with one of them
SecondPassPrefixed == {"playbook", "playbooks", "score", "pages"}

\* the second pass re-resolves a value that was None after pass one or whose
\* path starts with one of the prefixes
ReResolves(w) ==
    /\ w.value # <<>>
    /\ w.resolved_value = NoneV \/ w.value[1] \in SecondPassPrefixed

\* the same test on the subvalue path and resolved_subvalue
ReResolvesSubvalue(w) ==
    /\ w.subvalue # <<>>
    /\ w.resolved_subvalue = NoneV \/ w.subvalue[1] \in SecondPassPrefixed

\* the widget with value and subvalue resolved against full_context, each
\* when its test holds
ReResolved(w, full_context, value_again, subvalue_again) ==
    [w EXCEPT !.resolved_value =
                 IF value_again
                 THEN _resolve_path(PathStr(Dotted(w.value)), full_context)
                 ELSE @,
              !.resolved_subvalue =
                 IF subvalue_again
                 THEN _resolve_path(PathStr(Dotted(w.subvalue)), full_context)
                 ELSE @]

RECURSIVE FilterWidgetsResolvingAll(_, _)
\* FilterWidgets resolving every path again, whatever pass one found
FilterWidgetsResolvingAll(widgets, full_context) ==
    IF widgets = <<>> THEN <<>>
    ELSE LET w == Head(widgets)
             rest == FilterWidgetsResolvingAll(Tail(widgets), full_context)
         IN IF SecondPassDrops(w.condition, full_context) THEN rest
            ELSE <<ReResolved(w, full_context, w.value # <<>>,
                              w.subvalue # <<>>)>> \o rest

RECURSIVE FilterWidgetsKeepingFirstPass(_, _)
\* FilterWidgets without the re-resolution of resolved_value
FilterWidgetsKeepingFirstPass(widgets, full_context) ==
    IF widgets = <<>> THEN <<>>
    ELSE LET w == Head(widgets)
             rest == FilterWidgetsKeepingFirstPass(Tail(widgets), full_context)
         IN IF SecondPassDrops(w.condition, full_context) THEN rest
            ELSE <<w>> \o rest

RECURSIVE FilterWidgets(_, _)
\* "for widget in section.get('widgets', [])": filtered_widgets
FilterWidgets(widgets, full_context) ==
    IF widgets = <<>> THEN <<>>
    ELSE LET w == Head(widgets)
             rest == FilterWidgets(Tail(widgets), full_context)
             resolved == ReResolved(w, full_context, ReResolves(w),
                                    ReResolvesSubvalue(w))
         IN IF SecondPassDrops(w.condition, full_context) THEN rest
            ELSE <<resolved>> \o rest

(***************************************************************************)
(* evaluate(playbook, report) as a state machine                           *)
(***************************************************************************)
VARIABLES
    playbook,                 \* the playbook definition
    report,                   \* the analysis report
    pc,                       \* "start", "pass1", "links", "pass2", "done", "raised"
    error,                    \* the exception evaluate raised ("none" so far)
    raw_context,
    pages_defs,
    page_i,                   \* the page the current loop is at (from 1)
    section_i,                \* the section of that page the loop is at
    page_sections_results,
    page_total_scorecards,
    page_passed_scorecards,
    pages_results,            \* result["pages"]
    total_scorecards_all,
    total_passed_all,
    resolved_links,
    result,                   \* score, total_scorecards, passed_scorecards
    filtered_sections,
    other,                    \* the frames of the other calls of evaluate: one
                              \* that returned earlier or one that is suspended
    tracker,                  \* a MissingDataTracker's accessed_keys and
                              \* missing_accessed, shared by root and children
    trackers,                 \* the paths of the tracker objects that exist
    lookups,                  \* the lookups made on them so far
    path_expr,                \* the path argument of a call of _resolve_path
    resolved,                 \* what the call returned, once it has
    tally,                    \* a number of rules and how many of them passed
    tally_score,              \* the score computed for them, once it is
    entries,                  \* manifest.get("manifests", []) of SkopeoAnalyzer.analyze
    analyze_pc,               \* "idle", "submit", "collect", "returned", "raised"
    submitted,                \* how many futures executor.submit has made
    started,                  \* how many of them a worker has taken off the queue
    running,                  \* the entries whose inspection a worker is running
    collected,                \* how many futures "for future in futures" has read
    platforms,                \* the platforms list
    overtaken,                \* an inspection ended while one submitted before
                              \* it was still running
    _token,                   \* RegistryClient._token
    get_pc,                   \* where a call of _get is: "idle", "first",
                              \* "authenticate", "retry", "ended"
    calls,                    \* how many calls of _get the client has had
    requests_log,             \* the GET requests the session has sent
    outcomes                  \* how each call of _get ended

vars ==
    << playbook, report, pc, error, raw_context, pages_defs, page_i, section_i,
       page_sections_results, page_total_scorecards, page_passed_scorecards,
       pages_results, total_scorecards_all, total_passed_all, resolved_links,
       result, filtered_sections, other, tracker, trackers, lookups,
       path_expr, resolved, tally, tally_score, entries, analyze_pc,
       submitted, started, running, collected, platforms, overtaken,
       _token, get_pc, calls, requests_log, outcomes >>

\* the state of a tracker that is used directly
trackerVars == << tracker, trackers, lookups >>

\* the parts of the program that a call of evaluate does not touch
\* a call of _resolve_path on its own
resolveVars == << path_expr, resolved >>

\* the computation of one score on its own
scoreVars == << tally, tally_score >>

\* the multi-platform branch of SkopeoAnalyzer.analyze
skopeoVars ==
    << entries, analyze_pc, submitted, started, running, collected, platforms,
       overtaken >>

\* a RegistryClient and its calls of _get
clientVars == << _token, get_pc, calls, requests_log, outcomes >>

elsewhere == << trackerVars, resolveVars, scoreVars, skopeoVars, clientVars >>

\* what a step of one call does not write: its arguments, the other calls
\* and the parts of the program outside evaluate
inputs == << playbook, report, other, elsewhere >>
passOne ==
    << page_sections_results, page_total_scorecards, page_passed_scorecards,
       total_scorecards_all, total_passed_all >>

NoResult == [score |-> 0, total_scorecards |-> 0, passed_scorecards |-> 0]

\* no tracker is in use, no path is being resolved, no score computed
TrackerIdle ==
    /\ tracker = NewTracker
    /\ trackers = {}
    /\ lookups = {}

ResolveIdle ==
    /\ path_expr = NotStr(NoneV)
    /\ resolved = <<>>

ScoreIdle ==
    /\ tally = [passed |-> 0, total |-> 0]
    /\ tally_score = <<>>

SkopeoIdle ==
    /\ entries = <<>>
    /\ analyze_pc = "idle"
    /\ submitted = 0
    /\ started = 0
    /\ running = {}
    /\ collected = 0
    /\ platforms = <<>>
    /\ overtaken = FALSE

\* RegistryClient.__init__: no token, no request made
ClientIdle ==
    /\ _token = NoneV
    /\ get_pc = "idle"
    /\ calls = 0
    /\ requests_log = <<>>
    /\ outcomes = <<>>

\* nothing outside evaluate is in use
ElsewhereIdle ==
    /\ TrackerIdle
    /\ ResolveIdle
    /\ ScoreIdle
    /\ SkopeoIdle
    /\ ClientIdle

Init ==
    /\ playbook \in Playbooks
    /\ report \in Reports
    /\ pc = "start"
    /\ error = "none"
    /\ raw_context = <<>>
    /\ pages_defs = <<>>
    /\ page_i = 1
    /\ section_i = 1
    /\ page_sections_results = <<>>
    /\ page_total_scorecards = 0
    /\ page_passed_scorecards = 0
    /\ pages_results = <<>>
    /\ total_scorecards_all = 0
    /\ total_passed_all = 0
    /\ resolved_links = <<>>
    /\ result = NoResult
    /\ filtered_sections = <<>>
    /\ other = <<>>
    /\ ElsewhereIdle

\* playbook.get("pages") / playbook.get("sections") is truthy
PagesGiven(pb) == pb.has_pages /\ pb.pages # <<>>
SectionsGiven(pb) == pb.has_sections /\ pb.sections # <<>>

\* RaiseMissingSections returning an empty result instead of raising
ReturnWithoutSections ==
    /\ pc = "start"
    /\ ~PagesGiven(playbook) /\ ~SectionsGiven(playbook)
    /\ raw_context' = RawContext(report)
    /\ pc' = "done"
    /\ UNCHANGED << inputs, error, pages_defs, page_i, section_i, passOne,
                    pages_results, resolved_links, result, filtered_sections >>

\* "if not pages_defs and not sections_defs: raise ValueError"
RaiseMissingSections ==
    /\ pc = "start"
    /\ ~PagesGiven(playbook) /\ ~SectionsGiven(playbook)
    /\ raw_context' = RawContext(report)
    /\ pc' = "raised"
    /\ error' = "ValueError"
    /\ UNCHANGED << inputs, pages_defs, page_i, section_i, passOne, pages_results,
                    resolved_links, result, filtered_sections >>

\* StartPassOne with "if sections_defs:" in the place of "if not pages_defs:"
StartPassOneSectionsFirst ==
    /\ pc = "start"
    /\ PagesGiven(playbook) \/ SectionsGiven(playbook)
    /\ raw_context' = RawContext(report)
    /\ pages_defs' = IF SectionsGiven(playbook)
                     THEN << UntitledPage(playbook.sections) >>
                     ELSE playbook.pages
    /\ pc' = "pass1"
    /\ UNCHANGED << inputs, error, page_i, section_i, passOne, pages_results,
                    resolved_links, result, filtered_sections >>

\* the data context is built and the root sections are wrapped in a page
StartPassOne ==
    /\ pc = "start"
    /\ PagesGiven(playbook) \/ SectionsGiven(playbook)
    /\ raw_context' = RawContext(report)
    /\ pages_defs' = IF PagesGiven(playbook) THEN playbook.pages
                     ELSE << UntitledPage(playbook.sections) >>
    /\ pc' = "pass1"
    /\ UNCHANGED << inputs, error, page_i, section_i, passOne, pages_results,
                    resolved_links, result, filtered_sections >>

InPassOne ==
    /\ pc = "pass1"
    /\ page_i <= Len(pages_defs)

\* "for section_def in page_sections_defs": the gate says continue
SkipSection ==
    /\ InPassOne
    /\ section_i <= Len(pages_defs[page_i].sections)
    /\ GateDrops(pages_defs[page_i].sections[section_i].condition, raw_context, report)
    /\ section_i' = section_i + 1
    /\ UNCHANGED << inputs, pc, error, raw_context, pages_defs, page_i, passOne,
                    pages_results, resolved_links, result, filtered_sections >>

\* "for section_def in page_sections_defs": the section is evaluated
EvaluateSection ==
    /\ InPassOne
    /\ section_i <= Len(pages_defs[page_i].sections)
    /\ ~GateDrops(pages_defs[page_i].sections[section_i].condition,
                  raw_context, report)
    /\ \E seed \in HashSeeds :
       \E section_result \in
             {_evaluate_section(pages_defs[page_i].sections[section_i],
                                raw_context, report, seed)} :
             /\ page_sections_results' = Append(page_sections_results, section_result)
             /\ page_total_scorecards' =
                   page_total_scorecards + section_result.total_scorecards
             /\ page_passed_scorecards' =
                   page_passed_scorecards + section_result.passed_scorecards
    /\ section_i' = section_i + 1
    /\ UNCHANGED << inputs, pc, error, raw_context, pages_defs, page_i,
                    total_scorecards_all, total_passed_all, pages_results,
                    resolved_links, result, filtered_sections >>

\* FinishPage with "=" in the place of "+=" for the playbook totals
FinishPageOverwritingTotals ==
    /\ InPassOne
    /\ section_i > Len(pages_defs[page_i].sections)
    /\ pages_results' = Append(pages_results,
          [title |-> PageTitle(pages_defs[page_i]),
           score |-> Score(page_passed_scorecards, page_total_scorecards),
           total_scorecards |-> page_total_scorecards,
           passed_scorecards |-> page_passed_scorecards,
           sections |-> page_sections_results])
    /\ total_scorecards_all' = page_total_scorecards
    /\ total_passed_all' = page_passed_scorecards
    /\ page_i' = page_i + 1
    /\ section_i' = 1
    /\ page_sections_results' = <<>>
    /\ page_total_scorecards' = 0
    /\ page_passed_scorecards' = 0
    /\ pc' = IF page_i = Len(pages_defs) THEN "links" ELSE "pass1"
    /\ UNCHANGED << inputs, error, raw_context, pages_defs, resolved_links, result,
                    filtered_sections >>

\* pages_results.append(...) and the playbook totals, then the next page
FinishPage ==
    /\ InPassOne
    /\ section_i > Len(pages_defs[page_i].sections)
    /\ pages_results' = Append(pages_results,
          [title |-> PageTitle(pages_defs[page_i]),
           score |-> Score(page_passed_scorecards, page_total_scorecards),
           total_scorecards |-> page_total_scorecards,
           passed_scorecards |-> page_passed_scorecards,
           sections |-> page_sections_results])
    /\ total_scorecards_all' = total_scorecards_all + page_total_scorecards
    /\ total_passed_all' = total_passed_all + page_passed_scorecards
    /\ page_i' = page_i + 1
    /\ section_i' = 1
    /\ page_sections_results' = <<>>
    /\ page_total_scorecards' = 0
    /\ page_passed_scorecards' = 0
    /\ pc' = IF page_i = Len(pages_defs) THEN "links" ELSE "pass1"
    /\ UNCHANGED << inputs, error, raw_context, pages_defs, resolved_links, result,
                    filtered_sections >>

\* a link's url raises an exception the loop does not catch
RaiseFromLinks ==
    /\ pc = "links"
    /\ LET r == ResolveLinksFrom(playbook.links, report, <<>>)
       IN /\ r.exc # "none"
          /\ error' = r.exc
    /\ pc' = "raised"
    /\ UNCHANGED << inputs, raw_context, pages_defs, page_i, section_i, passOne,
                    pages_results, resolved_links, result, filtered_sections >>

\* BuildResult with "full_context = report; full_context.update(result)":
\* the score of the result is written into the caller's report
BuildResultUpdatingReport ==
    /\ pc = "links"
    /\ LET r == ResolveLinksFrom(playbook.links, report, <<>>)
       IN /\ r.exc = "none"
          /\ resolved_links' = r.links
    /\ result' = [score |-> Score(total_passed_all, total_scorecards_all),
                  total_scorecards |-> total_scorecards_all,
                  passed_scorecards |-> total_passed_all]
    /\ report' = (<<"score">> :> IntV(result'.score)) @@ report
    /\ pc' = "pass2"
    /\ page_i' = 1
    /\ section_i' = 1
    /\ filtered_sections' = <<>>
    /\ UNCHANGED << playbook, other, elsewhere, error, raw_context, pages_defs,
                    passOne, pages_results >>

\* the links are resolved and result is built
BuildResult ==
    /\ pc = "links"
    /\ LET r == ResolveLinksFrom(playbook.links, report, <<>>)
       IN /\ r.exc = "none"
          /\ resolved_links' = r.links
    /\ result' = [score |-> Score(total_passed_all, total_scorecards_all),
                  total_scorecards |-> total_scorecards_all,
                  passed_scorecards |-> total_passed_all]
    /\ pc' = "pass2"
    /\ page_i' = 1
    /\ section_i' = 1
    /\ filtered_sections' = <<>>
    /\ UNCHANGED << inputs, error, raw_context, pages_defs, passOne, pages_results >>

InPassTwo ==
    /\ pc = "pass2"
    /\ page_i <= Len(pages_results)

full_context == FullContext(report, result, pages_results)

\* "for section in page['sections']": the section's condition says continue
SecondPassDropSection ==
    /\ InPassTwo
    /\ section_i <= Len(pages_results[page_i].sections)
    /\ SecondPassDrops(pages_results[page_i].sections[section_i].condition,
                       full_context)
    /\ section_i' = section_i + 1
    /\ UNCHANGED << inputs, pc, error, raw_context, pages_defs, page_i, passOne,
                    pages_results, resolved_links, result, filtered_sections >>

\* SecondPassKeepSection evaluating the section's rules once more, against
\* full_context
SecondPassKeepSectionEvaluatingAgain ==
    /\ InPassTwo
    /\ section_i <= Len(pages_results[page_i].sections)
    /\ LET section == pages_results[page_i].sections[section_i]
           kept == [section EXCEPT
                      !.widgets = FilterWidgets(section.widgets, full_context),
                      !.scorecards =
                         [i \in 1..Len(section.scorecards) |->
                             ScorecardResult(
                                section.scorecards[i],
                                jsonLogic(section.scorecards[i].condition,
                                          PlainData(full_context), NewTracker),
                                raw_context, "ascending")]]
       IN /\ ~SecondPassDrops(section.condition, full_context)
          /\ pages_results' =
                [pages_results EXCEPT ![page_i].sections[section_i] = kept]
          /\ filtered_sections' = Append(filtered_sections, kept)
    /\ section_i' = section_i + 1
    /\ UNCHANGED << inputs, pc, error, raw_context, pages_defs, page_i, passOne,
                    resolved_links, result >>

\* "for section in page['sections']": the section stays, with the widgets
\* that stay (section["widgets"] is replaced in the section itself)
SecondPassKeepSection ==
    /\ InPassTwo
    /\ section_i <= Len(pages_results[page_i].sections)
    /\ LET section == pages_results[page_i].sections[section_i]
           kept == [section EXCEPT
                      !.widgets = FilterWidgets(section.widgets, full_context)]
       IN /\ ~SecondPassDrops(section.condition, full_context)
          /\ pages_results' =
                [pages_results EXCEPT ![page_i].sections[section_i] = kept]
          /\ filtered_sections' = Append(filtered_sections, kept)
    /\ section_i' = section_i + 1
    /\ UNCHANGED << inputs, pc, error, raw_context, pages_defs, page_i, passOne,
                    resolved_links, result >>

\* page["sections"] = filtered_sections, then the next page
SecondPassFinishPage ==
    /\ InPassTwo
    /\ section_i > Len(pages_results[page_i].sections)
    /\ pages_results' = [pages_results EXCEPT ![page_i].sections = filtered_sections]
    /\ filtered_sections' = <<>>
    /\ page_i' = page_i + 1
    /\ section_i' = 1
    /\ UNCHANGED << inputs, pc, error, raw_context, pages_defs, passOne,
                    resolved_links, result >>

\* return result
Return ==
    /\ pc = "pass2"
    /\ page_i > Len(pages_results)
    /\ pc' = "done"
    /\ UNCHANGED << inputs, error, raw_context, pages_defs, page_i, section_i,
                    passOne, pages_results, resolved_links, result,
                    filtered_sections >>

Next ==
    \/ RaiseMissingSections
    \/ StartPassOne
    \/ SkipSection
    \/ EvaluateSection
    \/ FinishPage
    \/ RaiseFromLinks
    \/ BuildResult
    \/ SecondPassDropSection
    \/ SecondPassKeepSection
    \/ SecondPassFinishPage
    \/ Return

Spec == Init /\ [][Next]_vars

(***************************************************************************)
(* Several calls of evaluate                                               *)
(***************************************************************************)
\* the frame of the running call: its playbook argument and its locals
Frame ==
    [playbook |-> playbook, pc |-> pc, error |-> error,
     raw_context |-> raw_context, pages_defs |-> pages_defs,
     page_i |-> page_i, section_i |-> section_i,
     page_sections_results |-> page_sections_results,
     page_total_scorecards |-> page_total_scorecards,
     page_passed_scorecards |-> page_passed_scorecards,
     pages_results |-> pages_results,
     total_scorecards_all |-> total_scorecards_all,
     total_passed_all |-> total_passed_all,
     resolved_links |-> resolved_links, result |-> result,
     filtered_sections |-> filtered_sections]

\* the frame of a call of evaluate(pb, report) that has not taken a step
NewFrame(pb) ==
    [playbook |-> pb, pc |-> "start", error |-> "none",
     raw_context |-> <<>>, pages_defs |-> <<>>, page_i |-> 1, section_i |-> 1,
     page_sections_results |-> <<>>, page_total_scorecards |-> 0,
     page_passed_scorecards |-> 0, pages_results |-> <<>>,
     total_scorecards_all |-> 0, total_passed_all |-> 0,
     resolved_links |-> <<>>, result |-> NoResult,
     filtered_sections |-> <<>>]

\* the frame f becomes the running call
Resume(f) ==
    /\ playbook' = f.playbook
    /\ pc' = f.pc
    /\ error' = f.error
    /\ raw_context' = f.raw_context
    /\ pages_defs' = f.pages_defs
    /\ page_i' = f.page_i
    /\ section_i' = f.section_i
    /\ page_sections_results' = f.page_sections_results
    /\ page_total_scorecards' = f.page_total_scorecards
    /\ page_passed_scorecards' = f.page_passed_scorecards
    /\ pages_results' = f.pages_results
    /\ total_scorecards_all' = f.total_scorecards_all
    /\ total_passed_all' = f.total_passed_all
    /\ resolved_links' = f.resolved_links
    /\ result' = f.result
    /\ filtered_sections' = f.filtered_sections

Finished(f) == f.pc \in {"done", "raised"}

\* what the caller of evaluate gets from a finished call: the exception, or
\* the result with its pages and links
Returned(f) ==
    IF f.pc = "raised"
    THEN [error |-> f.error, result |-> NoResult, pages |-> <<>>, links |-> <<>>]
    ELSE [error |-> "none", result |-> f.result, pages |-> f.pages_results,
          links |-> f.resolved_links]

\* evaluate is called a second time with the arguments of the call that
\* has finished
CallAgain ==
    /\ Finished(Frame)
    /\ other = <<>>
    /\ other' = << Frame >>
    /\ Resume(NewFrame(playbook))
    /\ UNCHANGED << report, elsewhere >>

NextTwice ==
    \/ RaiseMissingSections
    \/ StartPassOne
    \/ SkipSection
    \/ EvaluateSection
    \/ FinishPage
    \/ RaiseFromLinks
    \/ BuildResult
    \/ SecondPassDropSection
    \/ SecondPassKeepSection
    \/ SecondPassFinishPage
    \/ Return
    \/ CallAgain

SpecTwice == Init /\ [][NextTwice]_vars

(***************************************************************************)
(* What the properties below talk about                                    *)
(***************************************************************************)
\* the section results evaluate holds: those of the page in progress and
\* those of the pages appended to result["pages"]
SectionResults ==
    {page_sections_results[i] : i \in 1..Len(page_sections_results)}
    \cup UNION {{pages_results[p].sections[i] :
                    i \in 1..Len(pages_results[p].sections)} :
                p \in 1..Len(pages_results)}

\* the rule results among them
RuleResults ==
    UNION {{s.scorecards[i] : i \in 1..Len(s.scorecards)} : s \in SectionResults}

SectionNamed(name) == CHOOSE d \in SectionDefs : d.name = name

RECURSIVE VarPaths(_)
\* the paths of the {"var": ...} leaves of a condition
VarPaths(c) ==
    IF c.op = "var" THEN {c.path}
    ELSE UNION {VarPaths(c.args[i]) : i \in 1..Len(c.args)}

\* walking path through the report meets a key that is absent or a null
MissingOrNull(rep, path) ==
    \E k \in 1..Len(path) :
        LET q == SubSeq(path, 1, k)
        IN q \notin DOMAIN rep \/ rep[q].t = "none"

\* the condition reads a path that is absent from the report or null in it
TouchesMissing(c, rep) == \E path \in VarPaths(c) : MissingOrNull(rep, path)

\* the condition reads a variable that the report holds with the value null
ReadsNull(c, rep) == \E path \in VarPaths(c) : path \in DOMAIN rep /\ rep[path].t = "none"

\* the outcome of the condition on the report in pass one
PassOneOutcome(c, rep) == jsonLogic(c, TrackedData(RawContext(rep), rep), NewTracker)
ConditionRaises(c, rep) == PassOneOutcome(c, rep).exc # "none"
EvaluatesFalse(c, rep) ==
    PassOneOutcome(c, rep).exc = "none" /\ ~Truthy(PassOneOutcome(c, rep).val)

\* the section definitions of a page that pass one does not skip
PassOneSections(page_def) ==
    SelectSeq(page_def.sections,
              LAMBDA d : ~GateDrops(d.condition, raw_context, report))

RECURSIVE SumOf(_, _)
\* the sum of field over a sequence of results
SumOf(results, field) ==
    IF results = <<>> THEN 0
    ELSE Head(results)[field] + SumOf(Tail(results), field)

\* score is 100 * passed / total rounded to a nearest integer
Nearest(score, passed, total) ==
    /\ 2 * (100 * passed - score * total) <= total
    /\ 2 * (score * total - 100 * passed) <= total

(***************************************************************************)
(* C1. A rule whose condition touches a key that is absent from the        *)
(* context, or whose value is null, has status "incomplete", whatever      *)
(* passed is.                                                              *)
(***************************************************************************)
C1_TouchingMissingIsIncomplete ==
    \A r \in RuleResults :
        TouchesMissing(r.condition, report) => r.status = "incomplete"

(***************************************************************************)
(* C2. A rule whose condition raises gets passed = False and status        *)
(* "incomplete"; the exception does not leave evaluate, and the rules,     *)
(* sections and pages after it are evaluated all the same.                 *)
(***************************************************************************)
C2_RuleExceptionIsContained ==
    /\ \A s \in SectionResults :
          LET def == SectionNamed(s.name)
          IN /\ Len(s.scorecards) = Len(def.scorecards)
             /\ \A i \in 1..Len(s.scorecards) :
                   /\ s.scorecards[i].name = def.scorecards[i].name
                   /\ ConditionRaises(def.scorecards[i].condition, report)
                        => /\ ~s.scorecards[i].passed
                           /\ s.scorecards[i].status = "incomplete"
    /\ pc \in {"links", "pass2", "done"} =>
          /\ Len(pages_results) = Len(pages_defs)
          /\ \A p \in 1..Len(pages_defs) :
                pc = "links" =>
                   Len(pages_results[p].sections) = Len(PassOneSections(pages_defs[p]))
    /\ pc = "raised" =>
          \/ ~PagesGiven(playbook) /\ ~SectionsGiven(playbook)
          \/ ResolveLinksFrom(playbook.links, report, <<>>).exc = error

\* a rule raised, is incomplete, and the rule after it was evaluated and passed
C2_Witness ==
    /\ pc = "done"
    /\ \E s \in SectionResults :
          \E i \in 1..(Len(s.scorecards) - 1) :
             /\ ConditionRaises(s.scorecards[i].condition, report)
             /\ s.scorecards[i].status = "incomplete"
             /\ s.scorecards[i + 1].status = "passed"

(***************************************************************************)
(* C3. evaluate raises ValueError when the playbook defines neither pages  *)
(* nor sections, and produces no result then.                              *)
(***************************************************************************)
C3_NeitherPagesNorSectionsRaises ==
    (pc # "start" /\ ~playbook.has_pages /\ ~playbook.has_sections)
        => /\ pc = "raised"
           /\ error = "ValueError"
           /\ result = NoResult
           /\ pages_results = <<>>

C3_Witness ==
    /\ pc = "raised"
    /\ error = "ValueError"
    /\ ~playbook.has_pages /\ ~playbook.has_sections
    /\ playbook.links # <<>>

(***************************************************************************)
(* C4. The missing-pages-and-sections case is the only failure evaluate    *)
(* raises: with a pages or a sections key in the playbook, evaluate        *)
(* returns, whatever the conditions and the link templates are.            *)
(***************************************************************************)
C4_OnlyMissingSectionsRaises ==
    pc = "raised" => ~playbook.has_pages /\ ~playbook.has_sections

(***************************************************************************)
(* C5. Whenever total_scorecards > 0, the score of a section, of a page    *)
(* and of the playbook is 100 * passed_scorecards / total_scorecards       *)
(* rounded to the nearest integer (2 of 3 gives 67); so is the percentage  *)
(* of every levels_summary and tags_summary entry.                         *)
(***************************************************************************)
C5_ScoreIsRoundedPercentage ==
    /\ \A s \in SectionResults :
          /\ s.total_scorecards > 0 =>
                Nearest(s.score, s.passed_scorecards, s.total_scorecards)
          /\ \A l \in DOMAIN s.levels_summary :
                LET e == s.levels_summary[l]
                IN e.total > 0 /\ Nearest(e.percentage, e.passed, e.total)
          /\ \A t \in DOMAIN s.tags_summary :
                LET e == s.tags_summary[t]
                IN e.total > 0 /\ Nearest(e.percentage, e.passed, e.total)
          /\ (s.passed_scorecards = 2 /\ s.total_scorecards = 3) => s.score = 67
    /\ \A p \in 1..Len(pages_results) :
          pages_results[p].total_scorecards > 0 =>
             Nearest(pages_results[p].score, pages_results[p].passed_scorecards,
                     pages_results[p].total_scorecards)
    /\ (pc \in {"pass2", "done"} /\ result.total_scorecards > 0) =>
          Nearest(result.score, result.passed_scorecards, result.total_scorecards)

\* the result is built: 2 of 3 gives 67 for a section, 3 of 8 gives 38 for
\* another, and a tags_summary entry has 1 of 3
C5_Witness ==
    /\ pc = "pass2"
    /\ result.total_scorecards > 3
    /\ result.passed_scorecards > 0
    /\ \E s \in SectionResults :
          /\ s.passed_scorecards = 3 /\ s.total_scorecards = 8 /\ s.score = 38
    /\ \E s \in SectionResults :
          /\ s.passed_scorecards = 2 /\ s.total_scorecards = 3 /\ s.score = 67
    /\ \E s \in SectionResults :
          \E t \in DOMAIN s.tags_summary :
             s.tags_summary[t].total = 3 /\ s.tags_summary[t].passed = 1

(***************************************************************************)
(* C6. A section, a page or a playbook with zero rules scores the integer  *)
(* 0, and the empty rule list makes evaluate raise nothing.                *)
(***************************************************************************)
C6_ZeroRulesScoreZero ==
    /\ \A s \in SectionResults : s.total_scorecards = 0 => s.score = 0
    /\ \A p \in 1..Len(pages_results) :
          pages_results[p].total_scorecards = 0 => pages_results[p].score = 0
    /\ (pc \in {"pass2", "done"} /\ result.total_scorecards = 0) => result.score = 0
    /\ (pc = "raised" /\ error \in {"ZeroDivisionError", "IndexError"}) =>
          \E s \in 1..Len(playbook.sections) : playbook.sections[s].scorecards # <<>>
    /\ ( /\ PagesGiven(playbook) \/ SectionsGiven(playbook)
         /\ playbook.links = <<>>
         /\ \A s \in 1..Len(playbook.sections) : playbook.sections[s].scorecards = <<>>
         /\ \A p \in 1..Len(playbook.pages) :
               \A s \in 1..Len(playbook.pages[p].sections) :
                  playbook.pages[p].sections[s].scorecards = <<>> )
          => pc # "raised"

\* a playbook whose only section has no rule returned with score 0
C6_Witness ==
    /\ pc = "done"
    /\ result.total_scorecards = 0 /\ result.score = 0
    /\ \E p \in 1..Len(pages_results) :
          /\ pages_results[p].score = 0
          /\ \E i \in 1..Len(pages_results[p].sections) :
                /\ pages_results[p].sections[i].scorecards = <<>>
                /\ pages_results[p].sections[i].score = 0

(***************************************************************************)
(* C7. A page's total_scorecards and passed_scorecards are the sums over   *)
(* the sections pass one evaluated for it (a skipped section contributes   *)
(* nothing); the playbook's are the sums over its pages.                   *)
(***************************************************************************)
C7_TotalsAreSums ==
    /\ pc \in {"pass1", "links"} =>
          \A p \in 1..Len(pages_results) :
             LET page == pages_results[p]
                 evaluated == PassOneSections(pages_defs[p])
             IN /\ Len(page.sections) = Len(evaluated)
                /\ \A i \in 1..Len(evaluated) : page.sections[i].name = evaluated[i].name
                /\ page.total_scorecards = SumOf(page.sections, "total_scorecards")
                /\ page.passed_scorecards = SumOf(page.sections, "passed_scorecards")
                /\ page.total_scorecards =
                      SumOf([i \in 1..Len(evaluated) |->
                                [n |-> Len(evaluated[i].scorecards)]], "n")
    /\ pc \in {"pass1", "links"} =>
          /\ total_scorecards_all = SumOf(pages_results, "total_scorecards")
          /\ total_passed_all = SumOf(pages_results, "passed_scorecards")
    /\ pc \in {"pass2", "done"} =>
          /\ result.total_scorecards = SumOf(pages_results, "total_scorecards")
          /\ result.passed_scorecards = SumOf(pages_results, "passed_scorecards")

\* two pages: the first one's section has rules and was skipped, the second
\* one's was evaluated
C7_Witness ==
    /\ pc = "links"
    /\ Len(pages_results) = 2
    /\ \E i \in 1..Len(pages_defs[1].sections) :
          pages_defs[1].sections[i].scorecards # <<>>
    /\ pages_results[1].sections = <<>>
    /\ pages_results[1].total_scorecards = 0
    /\ pages_results[2].total_scorecards > 0
    /\ pages_results[2].passed_scorecards > 0
    /\ total_scorecards_all = pages_results[2].total_scorecards

(***************************************************************************)
(* C8. A null counts as missing: looking up a key whose value is None      *)
(* returns None and sets missing_accessed, looking up one whose value is 0 *)
(* or False does not; so a rule whose condition reads a variable whose     *)
(* value is null always has status "incomplete".                           *)
(***************************************************************************)
C8_NullIsMissing ==
    /\ \A key \in DOMAIN raw_context :
          Len(key) = 1 =>
             LET got == TrackerGetItem(raw_context, report, <<>>, key[1], NewTracker)
             IN /\ got.found
                /\ got.val = raw_context[key]
                /\ got.trk.missing_accessed <=> (raw_context[key].t = "none")
    /\ \A r \in RuleResults :
          ReadsNull(r.condition, report) => r.status = "incomplete"

(***************************************************************************)
(* C9. In pass one a gated widget is dropped exactly when its condition    *)
(* evaluates false with no missing or null data accessed, and is kept when *)
(* the evaluation is incomplete; the same rule decides whether a gated     *)
(* section is skipped.                                                     *)
(***************************************************************************)
DroppedByRule(c, rep) ==
    /\ HasCondition(c)
    /\ EvaluatesFalse(c, rep)
    /\ ~TouchesMissing(c, rep)

C9_PassOneDropRule ==
    pc \in {"pass1", "links"} =>
       /\ \A s \in SectionResults :
             LET kept == SelectSeq(RawWidgets(SectionNamed(s.name)),
                                   LAMBDA w : ~DroppedByRule(w.condition, report))
             IN /\ Len(s.widgets) = Len(kept)
                /\ \A w \in 1..Len(kept) : s.widgets[w].label = kept[w].label
       /\ \A p \in 1..Len(pages_results) :
             LET kept == SelectSeq(pages_defs[p].sections,
                                   LAMBDA d : ~DroppedByRule(d.condition, report))
             IN /\ Len(pages_results[p].sections) = Len(kept)
                /\ \A i \in 1..Len(kept) :
                      pages_results[p].sections[i].name = kept[i].name

(***************************************************************************)
(* C10. The second pass re-evaluates every section's gating condition,     *)
(* and every surviving section's widget conditions, against the augmented  *)
(* context (the report plus the playbook's result, playbook, playbooks,    *)
(* score) and removes those that are false; every gated section or widget  *)
(* of the returned result has its condition truthy against that context.   *)
(***************************************************************************)
TruthyAgainst(c, context) ==
    LET r == jsonLogic(c, PlainData(context), NewTracker)
    IN r.exc = "none" /\ Truthy(r.val)

C10_SecondPassGating ==
    pc = "done" =>
       \A p \in 1..Len(pages_results) :
          \A i \in 1..Len(pages_results[p].sections) :
             LET section == pages_results[p].sections[i]
             IN /\ HasCondition(section.condition) =>
                      TruthyAgainst(section.condition, full_context)
                /\ \A w \in 1..Len(section.widgets) :
                      HasCondition(section.widgets[w].condition) =>
                         TruthyAgainst(section.widgets[w].condition, full_context)

\* the result is returned: a gated section with gated widgets is in it, and
\* the second pass removed a section that pass one had kept
C10_Witness ==
    /\ pc = "done"
    /\ \E p \in 1..Len(pages_results) :
          Len(pages_results[p].sections) < Len(PassOneSections(pages_defs[p]))
    /\ \E p \in 1..Len(pages_results) :
          \E i \in 1..Len(pages_results[p].sections) :
             LET section == pages_results[p].sections[i]
             IN /\ HasCondition(section.condition)
                /\ \E w \in 1..Len(section.widgets) :
                      HasCondition(section.widgets[w].condition)

(***************************************************************************)
(* C11. Whatever the report (it may have a top-level score of its own), a  *)
(* kept widget whose value is "score" has, in the returned result, a       *)
(* resolved_value equal to the playbook's computed overall score.          *)
(***************************************************************************)
\* the widgets of the result
ResultWidgets ==
    UNION {{s.widgets[w] : w \in 1..Len(s.widgets)} : s \in SectionResults}

C11_ScoreWidgetResolvesToOwnScore ==
    pc = "done" =>
       \A w \in ResultWidgets :
          w.value = <<"score">> => w.resolved_value = IntV(result.score)

\* returned: the report has a score of its own, 100, the playbook computed
\* another one, and a kept widget whose value is "score" shows the latter
C11_Witness ==
    /\ pc = "done"
    /\ <<"score">> \in DOMAIN report
    /\ report[<<"score">>] # IntV(result.score)
    /\ \E w \in ResultWidgets :
          w.value = <<"score">> /\ w.resolved_value = IntV(result.score)

(***************************************************************************)
(* C12. Links are formatted against the nested report; a link whose url is *)
(* not a string is skipped, one whose url fails to format is omitted and   *)
(* does not abort evaluate; the returned links are the successfully        *)
(* formatted ones, in definition order.                                    *)
(***************************************************************************)
\* the link's url is a string that formats against the report
Formats(link, rep) ==
    link.url.kind # "nonstr" /\ FormatUrl(link.url, rep) = "none"

\* the links that format, in definition order
FormattedLinks == SelectSeq(playbook.links, LAMBDA l : Formats(l, report))

C12_LinksOmittedNeverAbort ==
    /\ pc = "raised" => ~PagesGiven(playbook) /\ ~SectionsGiven(playbook)
    /\ pc \in {"pass2", "done"} => resolved_links = FormattedLinks

(***************************************************************************)
(* C13. levels_summary of a section has an entry {total, passed,           *)
(* percentage} for every level name declared in the section's levels.      *)
(***************************************************************************)
DeclaredLevels(section) == {section.levels[i].name : i \in 1..Len(section.levels)}

C13_EveryDeclaredLevelHasEntry ==
    \A s \in SectionResults :
       \A l \in DeclaredLevels(SectionNamed(s.name)) : l \in DOMAIN s.levels_summary

(***************************************************************************)
(* C14. Level summaries are not cumulative: the entry of level L counts    *)
(* the rules whose level is exactly L, and those of them that passed;      *)
(* rules of another level, without level or of an undeclared level never   *)
(* contribute.  The entries are in ascending order of level rank.          *)
(***************************************************************************)
C14_LevelEntriesCountExactLevel ==
    \A s \in SectionResults :
       LET def == SectionNamed(s.name)
           rules(l) == {i \in 1..Len(s.scorecards) : s.scorecards[i].level = l}
           keys == s.levels_summary_keys
       IN /\ DOMAIN s.levels_summary \subseteq DeclaredLevels(def)
          /\ \A l \in DOMAIN s.levels_summary :
                /\ s.levels_summary[l].total = Cardinality(rules(l))
                /\ s.levels_summary[l].passed =
                      Cardinality({i \in rules(l) : s.scorecards[i].passed})
          /\ {keys[i] : i \in 1..Len(keys)} = DOMAIN s.levels_summary
          /\ \A i, k \in 1..Len(keys) :
                i < k => /\ keys[i] # keys[k]
                         /\ LevelsDefined(def)[keys[i]] <= LevelsDefined(def)[keys[k]]

\* a section declared gold before silver: silver's entry comes first, gold's
\* has fewer rules than the section, and a rule of an undeclared level and
\* rules without level are in another section's results
C14_Witness ==
    /\ pc = "links"
    /\ \E s \in SectionResults :
          /\ s.levels_summary_keys = <<"silver", "gold">>
          /\ SectionNamed(s.name).levels[1].name = "gold"
          /\ s.levels_summary["gold"].total = 2
          /\ s.levels_summary["silver"].total = 1
          /\ s.total_scorecards = 3
    /\ \E s \in SectionResults :
          /\ \E i \in 1..Len(s.scorecards) :
                s.scorecards[i].level \notin DeclaredLevels(SectionNamed(s.name)) \cup {"none"}
          /\ \E i \in 1..Len(s.scorecards) : s.scorecards[i].level = "none"
          /\ DOMAIN s.levels_summary = {"gold"}
          /\ s.levels_summary["gold"].total = 2

(***************************************************************************)
(* C15. tags_summary has exactly one bucket per distinct tag found in any  *)
(* rule's tags; a rule with several tags is counted in the bucket of each; *)
(* a bucket's total is the number of rules carrying the tag, its passed    *)
(* the number of those that passed.                                        *)
(***************************************************************************)
C15_TagBuckets ==
    \A s \in SectionResults :
       LET def == SectionNamed(s.name)
           carrying(t) == {i \in 1..Len(def.scorecards) : t \in def.scorecards[i].tags}
       IN /\ DOMAIN s.tags_summary =
                UNION {def.scorecards[i].tags : i \in 1..Len(def.scorecards)}
          /\ \A t \in DOMAIN s.tags_summary :
                /\ s.tags_summary[t].total = Cardinality(carrying(t))
                /\ s.tags_summary[t].passed =
                      Cardinality({i \in carrying(t) : s.scorecards[i].passed})

\* a rule with two tags is counted in both buckets, one of 3 rules and one
\* of 1, and a rule of the first bucket passed
C15_Witness ==
    /\ pc = "links"
    /\ \E s \in SectionResults :
          /\ DOMAIN s.tags_summary = {"security", "hygiene"}
          /\ \E i \in 1..Len(s.scorecards) :
                s.scorecards[i].tags = {"security", "hygiene"}
          /\ s.tags_summary["security"].total = 3
          /\ s.tags_summary["security"].passed = 2
          /\ s.tags_summary["hygiene"].total = 1

(***************************************************************************)
(* C16. render_order lists the canonical keys widgets, analyzers, levels,  *)
(* scorecards in the order in which their defining keys first appear in    *)
(* the section definition (display's keys at the position of display),     *)
(* each at most once; with a tag summary "tags" comes immediately before   *)
(* "scorecards" (last when scorecards is not listed), without one "tags"   *)
(* does not appear.                                                        *)
(***************************************************************************)
RECURSIVE Expanded(_, _)
\* the section's keys with "display" replaced by the canonical keys display
\* defines, and the keys that define nothing left out
Expanded(keys, display_keys) ==
    IF keys = <<>> THEN <<>>
    ELSE (CASE Head(keys) = "display" ->
                 SelectSeq(display_keys, LAMBDA k : k \in {"analyzers", "widgets"})
            [] Head(keys) \in {"levels", "scorecards", "widgets"} -> <<Head(keys)>>
            [] OTHER -> <<>>)
         \o Expanded(Tail(keys), display_keys)

\* the index of the first occurrence of key in a sequence that holds it
FirstIndex(seq, key) ==
    CHOOSE i \in 1..Len(seq) : seq[i] = key /\ \A k \in 1..(i - 1) : seq[k] # key

C16_RenderOrder ==
    \A s \in SectionResults :
       LET def == SectionNamed(s.name)
           defining == Expanded(def.keys, def.display_keys)
           order == s.render_order
           canonical == SelectSeq(order, LAMBDA k : k # "tags")
           at(key) == FirstIndex(order, key)
       IN /\ \A i, k \in 1..Len(order) : i # k => order[i] # order[k]
          /\ {canonical[i] : i \in 1..Len(canonical)}
                = {defining[i] : i \in 1..Len(defining)}
          /\ \A i, k \in 1..Len(canonical) :
                i < k => FirstIndex(defining, canonical[i])
                            < FirstIndex(defining, canonical[k])
          /\ (DOMAIN s.tags_summary = {}) =>
                \A i \in 1..Len(order) : order[i] # "tags"
          /\ (DOMAIN s.tags_summary # {}) =>
                /\ \E i \in 1..Len(order) : order[i] = "tags"
                /\ IF \E i \in 1..Len(order) : order[i] = "scorecards"
                   THEN at("tags") + 1 = at("scorecards")
                   ELSE at("tags") = Len(order)

\* one section lists tags before scorecards after widgets, another, without
\* tags, lists display's widgets and analyzers before scorecards
C16_Witness ==
    /\ pc = "links"
    /\ \E s \in SectionResults :
          s.render_order = <<"widgets", "tags", "scorecards", "levels">>
    /\ \E s \in SectionResults :
          /\ s.render_order = <<"widgets", "analyzers", "scorecards">>
          /\ SectionNamed(s.name).keys =
                <<"name", "condition", "display", "scorecards", "widgets">>

\* the section results on the pages of a result
SectionsOf(pages) ==
    UNION {{pages[p].sections[i] : i \in 1..Len(pages[p].sections)} :
           p \in 1..Len(pages)}

(***************************************************************************)
(* C17  Determinism: a second call of evaluate with the same playbook and  *)
(* the same report returns what the first call returned: the same pages,   *)
(* sections, scorecards with their analyzers lists, levels_summary and     *)
(* tags_summary keys, widgets, links and render_order, in the same order,  *)
(* whatever order the sets of the two calls iterate in.                    *)
(***************************************************************************)
C17_SecondCallReturnsTheSame ==
    (other # <<>> /\ Finished(Frame)) => Returned(Frame) = Returned(other[1])

\* both calls returned a page with a rule that read two analyzers and a
\* section with two tags
C17_Witness ==
    /\ other # <<>>
    /\ pc = "done"
    /\ other[1].pc = "done"
    /\ \E s \in SectionsOf(pages_results) : Len(s.tags_summary_keys) = 2
    /\ \E s \in SectionsOf(pages_results) :
          \E i \in 1..Len(s.scorecards) : Len(s.scorecards[i].analyzers) = 2

(***************************************************************************)
(* Two calls of evaluate that run concurrently                             *)
(***************************************************************************)
PbMissing ==
    [has_pages |-> FALSE, pages |-> <<>>, has_sections |-> FALSE,
     sections |-> <<>>, links |-> <<>>]
PbChecks ==
    [has_pages |-> FALSE, pages |-> <<>>, has_sections |-> TRUE,
     sections |-> << SecChecks, SecBroken >>,
     links |-> << Link("home", UrlPlain), Link("attr", UrlAttribute) >>]
PbPages ==
    [has_pages |-> TRUE,
     pages |-> << Page("second", << SecGated >>), Page("last", << SecSelf >>) >>,
     has_sections |-> FALSE, sections |-> <<>>, links |-> <<>>]
PbEight ==
    [has_pages |-> FALSE, pages |-> <<>>, has_sections |-> TRUE,
     sections |-> << SecEight, SecEmpty >>, links |-> <<>>]

\* the playbooks that are evaluated together
ConcurrentPlaybooks == {PbMissing, PbChecks, PbPages, PbEight}

\* pass one of evaluate for one page, as a function of its arguments
PassOnePage(page_def, flat, rep) ==
    LET kept == SelectSeq(page_def.sections,
                          LAMBDA sd : ~GateDrops(sd.condition, flat, rep))
        secs == [i \in 1..Len(kept) |->
                    _evaluate_section(kept[i], flat, rep, "ascending")]
    IN [title |-> PageTitle(page_def),
        score |-> Score(SumOf(secs, "passed_scorecards"),
                        SumOf(secs, "total_scorecards")),
        total_scorecards |-> SumOf(secs, "total_scorecards"),
        passed_scorecards |-> SumOf(secs, "passed_scorecards"),
        sections |-> secs]

RECURSIVE SecondPassFrom(_, _, _, _, _, _)
\* the second pass of evaluate from section s of page p on, as a function
SecondPassFrom(pages, rep, res, p, s, filtered) ==
    IF p > Len(pages) THEN pages
    ELSE IF s > Len(pages[p].sections)
    THEN SecondPassFrom([pages EXCEPT ![p].sections = filtered],
                        rep, res, p + 1, 1, <<>>)
    ELSE LET ctx == FullContext(rep, res, pages)
             section == pages[p].sections[s]
             kept == [section EXCEPT
                        !.widgets = FilterWidgets(section.widgets, ctx)]
         IN IF SecondPassDrops(section.condition, ctx)
            THEN SecondPassFrom(pages, rep, res, p, s + 1, filtered)
            ELSE SecondPassFrom([pages EXCEPT ![p].sections[s] = kept],
                                rep, res, p, s + 1, Append(filtered, kept))

\* evaluate(pb, rep) run alone, as a function of its arguments
EvaluateAlone(pb, rep) ==
    LET raised(e) == [error |-> e, result |-> NoResult, pages |-> <<>>,
                      links |-> <<>>]
        defs == IF PagesGiven(pb) THEN pb.pages
                ELSE << UntitledPage(pb.sections) >>
        pages == [i \in 1..Len(defs) |->
                     PassOnePage(defs[i], RawContext(rep), rep)]
        links == ResolveLinksFrom(pb.links, rep, <<>>)
        res == [score |-> Score(SumOf(pages, "passed_scorecards"),
                                SumOf(pages, "total_scorecards")),
                total_scorecards |-> SumOf(pages, "total_scorecards"),
                passed_scorecards |-> SumOf(pages, "passed_scorecards")]
    IN IF ~PagesGiven(pb) /\ ~SectionsGiven(pb) THEN raised("ValueError")
       ELSE IF links.exc # "none" THEN raised(links.exc)
       ELSE [error |-> "none", result |-> res,
             pages |-> SecondPassFrom(pages, rep, res, 1, 1, <<>>),
             links |-> links.links]

\* two calls that have not taken a step, for distinct playbooks and one report
InitConcurrent ==
    /\ report \in Reports
    /\ \E pb \in ConcurrentPlaybooks, pb2 \in ConcurrentPlaybooks :
          /\ pb # pb2
          /\ playbook = pb
          /\ other = << NewFrame(pb2) >>
    /\ pc = "start"
    /\ error = "none"
    /\ raw_context = <<>>
    /\ pages_defs = <<>>
    /\ page_i = 1
    /\ section_i = 1
    /\ page_sections_results = <<>>
    /\ page_total_scorecards = 0
    /\ page_passed_scorecards = 0
    /\ pages_results = <<>>
    /\ total_scorecards_all = 0
    /\ total_passed_all = 0
    /\ resolved_links = <<>>
    /\ result = NoResult
    /\ filtered_sections = <<>>
    /\ ElsewhereIdle

\* the scheduler suspends the running call and resumes the other one
Switch ==
    /\ other # <<>>
    /\ other' = << Frame >>
    /\ Resume(other[1])
    /\ UNCHANGED << report, elsewhere >>

NextConcurrent ==
    \/ RaiseMissingSections
    \/ StartPassOne
    \/ SkipSection
    \/ EvaluateSection
    \/ FinishPage
    \/ RaiseFromLinks
    \/ BuildResult
    \/ SecondPassDropSection
    \/ SecondPassKeepSection
    \/ SecondPassFinishPage
    \/ Return
    \/ Switch

SpecConcurrent == InitConcurrent /\ [][NextConcurrent]_vars

\* the calls in flight: the running one and the suspended one
Calls == {Frame} \cup {other[i] : i \in 1..Len(other)}

(***************************************************************************)
(* C18  Two calls of evaluate with distinct playbooks and the same report, *)
(* their steps interleaved in every way: the report stays the one that was *)
(* passed in, each playbook stays the definition that was passed in, and   *)
(* each call returns what it returns when it runs alone.                   *)
(***************************************************************************)
C18_InterleavedCallsReturnAsAlone ==
    /\ report \in Reports
    /\ \A f \in Calls :
          /\ f.playbook \in ConcurrentPlaybooks
          /\ Finished(f) => Returned(f) = EvaluateAlone(f.playbook, report)

\* both calls have returned a result, for distinct playbooks, each with a
\* section that went through both passes
C18_Witness ==
    /\ Len(other) = 1
    /\ playbook # other[1].playbook
    /\ pc = "done" /\ other[1].pc = "done"
    /\ \E s \in SectionsOf(pages_results) : s.scorecards # <<>>
    /\ SectionsOf(other[1].pages_results) # {}

\* the var references among the pieces of a details string
VarParts(details) ==
    {details[i] : i \in {j \in 1..Len(details) :
                            details[j].kind \in {"var-missing", "var-value"}}}

(***************************************************************************)
(* C19  In the details of a rule a var reference shows MISSING exactly     *)
(* when the value looked up for it is falsy or None, an absent key         *)
(* included, and shows the value otherwise; the details of a rule that     *)
(* reads a missing key contain MISSING.                                    *)
(***************************************************************************)
C19_FalsyRendersMissing ==
    \A r \in RuleResults :
       /\ \A part \in VarParts(r.details) :
             (part.kind = "var-missing")
                <=> ~Truthy(TrackerGet(raw_context, part.path))
       /\ \A path \in VarPaths(r.condition) :
             path \notin DOMAIN raw_context
                => \E part \in VarParts(r.details) :
                      part.path = path /\ part.kind = "var-missing"

\* the names of a sequence of section definitions or section results
NamesOf(sections) == [i \in 1..Len(sections) |-> sections[i].name]

RECURSIVE IsSubsequence(_, _)
\* a is b with some of its elements left out, the others in b's order
IsSubsequence(a, b) ==
    IF a = <<>> THEN TRUE
    ELSE IF b = <<>> THEN FALSE
    ELSE IF Head(a) = Head(b) THEN IsSubsequence(Tail(a), Tail(b))
    ELSE IsSubsequence(a, Tail(b))

\* the page of the result holds the sections of sections_defs, in their order:
\* after pass one all that the gate did not skip, later those still kept
HoldsSectionsOf(page, sections_defs) ==
    /\ IsSubsequence(NamesOf(page.sections), NamesOf(sections_defs))
    /\ pc = "links" =>
          /\ NamesOf(page.sections) =
                NamesOf(PassOneSections([sections |-> sections_defs]))
          /\ page.total_scorecards =
                SumOf([i \in 1..Len(page.sections) |->
                         [n |-> Len(SectionNamed(page.sections[i].name).scorecards)]],
                      "n")

(***************************************************************************)
(* C20  The pages of the result.  A playbook that gives only sections gets *)
(* exactly one page, titled "Default", with the results of those sections  *)
(* in definition order.  A playbook that gives pages gets one page for     *)
(* each page definition, in definition order; sections given at top level  *)
(* beside a non-empty pages list are not evaluated and add nothing to the  *)
(* totals.                                                                 *)
(***************************************************************************)
C20_PagesOfResult ==
    pc \in {"links", "pass2", "done"} =>
       /\ (~playbook.has_pages /\ SectionsGiven(playbook)) =>
             /\ Len(pages_results) = 1
             /\ pages_results[1].title = "Default"
             /\ HoldsSectionsOf(pages_results[1], playbook.sections)
       /\ PagesGiven(playbook) =>
             /\ Len(pages_results) = Len(playbook.pages)
             /\ \A p \in 1..Len(pages_results) :
                   /\ playbook.pages[p].has_title =>
                         pages_results[p].title = playbook.pages[p].title
                   /\ HoldsSectionsOf(pages_results[p], playbook.pages[p].sections)
             /\ total_scorecards_all = SumOf(pages_results, "total_scorecards")
             /\ total_passed_all = SumOf(pages_results, "passed_scorecards")

\* a result with two pages, in the order of their definitions, for a playbook
\* that has top-level sections beside its pages
C20_Witness ==
    /\ pc = "done"
    /\ PagesGiven(playbook) /\ SectionsGiven(playbook)
    /\ Len(pages_results) = 2
    /\ pages_results[1].title = "second" /\ pages_results[2].title = "last"
    /\ pages_results[1].sections # <<>>
    /\ pages_results[2].sections # <<>>
    /\ result.total_scorecards = SumOf(pages_results, "total_scorecards")

(***************************************************************************)
(* A MissingDataTracker used directly                                      *)
(***************************************************************************)
\* no call of evaluate is running: its locals as at entry
NoCallRunning ==
    /\ playbook = PbMissing
    /\ other = <<>>
    /\ pc = "start"
    /\ error = "none"
    /\ pages_defs = <<>>
    /\ page_i = 1
    /\ section_i = 1
    /\ page_sections_results = <<>>
    /\ page_total_scorecards = 0
    /\ page_passed_scorecards = 0
    /\ pages_results = <<>>
    /\ total_scorecards_all = 0
    /\ total_passed_all = 0
    /\ resolved_links = <<>>
    /\ result = NoResult
    /\ filtered_sections = <<>>

evaluateVars ==
    << playbook, report, other, pc, error, raw_context, pages_defs, page_i,
       section_i, page_sections_results, page_total_scorecards,
       page_passed_scorecards, pages_results, total_scorecards_all,
       total_passed_all, resolved_links, result, filtered_sections >>

\* the keys that are looked up, and the most lookups made on one tracker
TrackerKeys == {"results", "tags", "total_tags", "other", "nope"}
MaxLookups == 4

\* tracker = MissingDataTracker(raw_context)
InitTracker ==
    /\ report \in Reports
    /\ raw_context = RawContext(report)
    /\ NoCallRunning
    /\ tracker = NewTracker
    /\ trackers = {<<>>}
    /\ lookups = {}
    /\ ResolveIdle
    /\ ScoreIdle
    /\ SkopeoIdle
    /\ ClientIdle

\* t[key] on the root tracker or on one of its children
GetItem ==
    /\ Cardinality(lookups) < MaxLookups
    /\ \E t \in trackers, key \in TrackerKeys :
          LET got == TrackerGetItem(raw_context, report, t, key, tracker)
          IN /\ tracker' = got.trk
             /\ trackers' = IF got.child THEN trackers \cup {Append(t, key)}
                            ELSE trackers
             /\ lookups' = lookups \cup {[path |-> t, key |-> key]}
    /\ UNCHANGED << evaluateVars, resolveVars, scoreVars, skopeoVars, clientVars >>

NextTracker == GetItem

SpecTracker == InitTracker /\ [][NextTracker]_vars

\* the lookup meets a key that its mapping does not hold, or holds as null
Missed(l) ==
    \/ ~TrackerHas(raw_context, report, l.path, l.key)
    \/ TrackerValue(raw_context, report, l.path, l.key).t = "none"

\* the lookup meets a nested mapping
MeetsMapping(l) ==
    /\ TrackerHas(raw_context, report, l.path, l.key)
    /\ TrackerValue(raw_context, report, l.path, l.key).t = "dict"

(***************************************************************************)
(* C21  The bookkeeping of a tracker is shared across nesting.  After any  *)
(* sequence of lookups on the root and its children, accessed_keys holds   *)
(* the full dotted path of every lookup, a tracker exists for every nested *)
(* mapping that a lookup returned, and missing_accessed of the root is set *)
(* exactly when some lookup, at any depth, met a missing key or a null;    *)
(* later lookups that succeed do not reset it.                             *)
(***************************************************************************)
C21_SharedBookkeeping ==
    trackers # {} =>
       /\ tracker.accessed_keys = {Append(l.path, l.key) : l \in lookups}
       /\ trackers = {<<>>} \cup {Append(l.path, l.key) :
                                    l \in {m \in lookups : MeetsMapping(m)}}
       /\ tracker.missing_accessed = (\E l \in lookups : Missed(l))

\* a null met two levels down, next to lookups that succeeded
C21_Witness ==
    /\ Cardinality(lookups) = MaxLookups
    /\ tracker.missing_accessed
    /\ \E l \in lookups :
          Len(l.path) = 2 /\ Missed(l)
             /\ TrackerHas(raw_context, report, l.path, l.key)
    /\ \A l \in lookups : Len(l.path) < 2 => ~Missed(l)
    /\ \E l \in lookups : Len(l.path) = 0 /\ ~MeetsMapping(l) /\ ~Missed(l)

(***************************************************************************)
(* _resolve_path called on its own                                         *)
(***************************************************************************)
\* {"b": [10, {"a": 5}], "a": None, "0": 7}
PathContext ==
    (<<"b">> :> ListV(2))
    @@ (<<"b", "0">> :> IntV(10))
    @@ (<<"b", "1">> :> DictV(1))
    @@ (<<"b", "1", "a">> :> IntV(5))
    @@ (<<"a">> :> NoneV)
    @@ (<<"0">> :> IntV(7))

\* the characters of the path strings, and the most characters of a path
PathChars == {"a", "b", "0", "1", "2", "-", ".", "[", "]", "{"}
MaxPathLen == 4

PathExprs ==
    {NotStr(IntV(123)), NotStr(NoneV), NotStr(ListV(0))}
    \cup {PathStr(cs) : cs \in UNION {[1..n -> PathChars] : n \in 0..MaxPathLen}}

InitResolve ==
    /\ path_expr \in PathExprs
    /\ resolved = <<>>
    /\ report = ReportEmpty
    /\ raw_context = <<>>
    /\ NoCallRunning
    /\ TrackerIdle
    /\ ScoreIdle
    /\ SkopeoIdle
    /\ ClientIdle

\* _resolve_path(path, context) returns
ResolvePath ==
    /\ resolved = <<>>
    /\ resolved' = << _resolve_path(path_expr, PathContext) >>
    /\ UNCHANGED << evaluateVars, trackerVars, scoreVars, skopeoVars, clientVars,
                    path_expr >>

NextResolve == ResolvePath

SpecResolve == InitResolve /\ [][NextResolve]_vars

\* the parts of a path that are not empty
NonEmptyParts(chars) == SelectSeq(Parts(chars), LAMBDA part : part # <<>>)

\* the node q of the context is reached by the parts: each part names the key
\* of a mapping, or is an integer that is the index of an element of a list
Reaches(tree, q, parts) ==
    /\ Len(q) = Len(parts)
    /\ q = <<>> \/ q \in DOMAIN tree
    /\ \A i \in 1..Len(q) :
          LET parent == ValueAt(tree, SubSeq(q, 1, i - 1))
          IN \/ parent.t = "dict" /\ q[i] = KeyOf(parts[i])
             \/ /\ parent.t = "list"
                /\ IsInt(parts[i])
                /\ IntOf(parts[i]) \in 0..(parent.n - 1)
                /\ q[i] = IndexSeg[IntOf(parts[i]) + 1]

\* the nodes of a tree, its root included
Nodes(tree) == DOMAIN tree \cup {<<>>}

(***************************************************************************)
(* C22  _resolve_path returns the expression itself when it is not a str;  *)
(* otherwise the value reached by walking mappings by key and lists by     *)
(* integer index through the parts that are not empty, and None when a key *)
(* is missing, a part met at a list is no integer or is outside            *)
(* 0..len-1, or a scalar is reached while parts remain.                    *)
(***************************************************************************)
C22_ResolvePath ==
    resolved # <<>> =>
       IF ~path_expr.is_str THEN resolved[1] = path_expr.val
       ELSE LET parts == NonEmptyParts(path_expr.chars)
                reached == {q \in Nodes(PathContext) :
                               Reaches(PathContext, q, parts)}
            IN /\ Cardinality(reached) <= 1
               /\ reached = {} => resolved[1] = NoneV
               /\ \A q \in reached : resolved[1] = ValueAt(PathContext, q)

\* "b..0" or "{b[0": an empty part is skipped and a list is indexed
C22_Witness ==
    /\ resolved = << IntV(10) >>
    /\ path_expr.is_str
    /\ \E i \in 1..Len(Parts(path_expr.chars)) : Parts(path_expr.chars)[i] = <<>>

\* the rule evaluated on its own against the report: whether it is
\* incomplete, and the analyzers under "results" that its condition read
IncompleteAlone(c, rep) ==
    PassOneOutcome(c, rep).exc # "none" \/ PassOneOutcome(c, rep).trk.missing_accessed

AnalyzersAlone(c, rep) ==
    {key[2] : key \in {k \in PassOneOutcome(c, rep).trk.accessed_keys :
                          Len(k) > 1 /\ k[1] = "results"}}

\* the elements of a sequence, as a set
Elements(seq) == {seq[i] : i \in 1..Len(seq)}

(***************************************************************************)
(* C23  Every evaluation of a rule, of a widget condition and of a section *)
(* condition has a tracker of its own.  The status and the analyzers of a  *)
(* rule are those its own condition gives against the report, whatever     *)
(* rules, widgets and sections come before it; a widget of pass one and a  *)
(* section of pass one are kept or dropped by their own conditions alone.  *)
(***************************************************************************)
C23_FreshTrackerPerEvaluation ==
    /\ \A r \in RuleResults :
          /\ (r.status = "incomplete") <=> IncompleteAlone(r.condition, report)
          /\ Elements(r.analyzers) = AnalyzersAlone(r.condition, report)
    /\ pc \in {"pass1", "links"} =>
          /\ \A s \in SectionResults :
                \A i \in 1..Len(s.widgets) :
                   ~GateDrops(s.widgets[i].condition, raw_context, report)
          /\ \A s \in SectionResults :
                ~GateDrops(s.condition, raw_context, report)

\* a complete rule that reads one analyzer comes after an incomplete rule
\* that read another one
C23_Witness ==
    \E s \in SectionResults :
       \E i \in 1..Len(s.scorecards), j \in 1..Len(s.scorecards) :
          /\ i < j
          /\ s.scorecards[i].status = "incomplete"
          /\ s.scorecards[i].analyzers # <<>>
          /\ s.scorecards[j].status = "failed"
          /\ s.scorecards[j].analyzers # <<>>
          /\ s.scorecards[j].analyzers # s.scorecards[i].analyzers

(***************************************************************************)
(* C24. In the second pass a kept widget's resolved_value or               *)
(* resolved_subvalue is computed again, against the augmented context,     *)
(* only when its path begins with playbook, score or pages or when pass    *)
(* one resolved None for it; otherwise the returned widget still carries   *)
(* what pass one resolved against the report.                              *)
(***************************************************************************)
\* what pass one resolves for a path of a widget
PassOneResolution(path) ==
    IF path # <<>> THEN _resolve_path(PathStr(Dotted(path)), report) ELSE NoneV

\* what the returned widget carries for a path, by the rule of the second pass
SecondPassResolution(path) ==
    IF /\ path # <<>>
       /\ PassOneResolution(path) = NoneV \/ path[1] \in SecondPassPrefixed
    THEN _resolve_path(PathStr(Dotted(path)),
                       FullContext(report, result, pages_results))
    ELSE PassOneResolution(path)

RuleSide(s) ==
    [name |-> s.name, score |-> s.score,
     total_scorecards |-> s.total_scorecards,
     passed_scorecards |-> s.passed_scorecards,
     levels_summary |-> s.levels_summary,
     levels_summary_keys |-> s.levels_summary_keys,
     tags_summary |-> s.tags_summary,
     tags_summary_keys |-> s.tags_summary_keys,
     scorecards |-> s.scorecards]

RuleSides(sections) == [i \in 1..Len(sections) |-> RuleSide(sections[i])]

\* the score and the totals of a page or of the playbook
Totals(r) ==
    [score |-> r.score, total_scorecards |-> r.total_scorecards,
     passed_scorecards |-> r.passed_scorecards]

\* a step of pass one: a section result that is appended has the declared
\* rules in order, and those appended before stay
PassOneStepEvaluatesOnce ==
    /\ Len(page_sections_results') = Len(page_sections_results) + 1 =>
          LET section == pages_defs[page_i].sections[section_i]
              s == page_sections_results'[Len(page_sections_results')]
          IN /\ Len(s.scorecards) = Len(section.scorecards)
             /\ \A i \in 1..Len(s.scorecards) :
                   /\ s.scorecards[i].name = section.scorecards[i].name
                   /\ s.scorecards[i].condition = section.scorecards[i].condition
             /\ SubSeq(page_sections_results', 1, Len(page_sections_results))
                   = page_sections_results
    /\ Len(pages_results') >= Len(pages_results)
    /\ SubSeq(pages_results', 1, Len(pages_results)) = pages_results

\* a step of the second pass
SecondPassStepKeepsRules ==
    /\ result' = result
    /\ Len(pages_results') = Len(pages_results)
    /\ \A p \in 1..Len(pages_results) :
          /\ Totals(pages_results'[p]) = Totals(pages_results[p])
          /\ IsSubsequence(RuleSides(pages_results'[p].sections),
                           RuleSides(pages_results[p].sections))
    /\ page_i <= Len(pages_results) =>
          IsSubsequence(RuleSides(filtered_sections'),
                        RuleSides(pages_results[page_i].sections))

RulesStep ==
    /\ pc = "pass1" => PassOneStepEvaluatesOnce
    /\ pc = "pass2" => SecondPassStepKeepsRules

C25_RulesEvaluatedInPassOneOnly == [][RulesStep]_vars

\* returned: the second pass removed a section that had rules, and kept one
\* with several rules and a widget it resolved again
C25_Witness ==
    /\ pc = "done"
    /\ \E p \in 1..Len(pages_results) :
          pages_results[p].total_scorecards >
             SumOf(pages_results[p].sections, "total_scorecards")
    /\ \E s \in SectionResults :
          /\ Len(s.scorecards) >= 2
          /\ \E i \in 1..Len(s.widgets) :
                s.widgets[i].resolved_value # PassOneResolution(s.widgets[i].value)
(***************************************************************************)
(* C27. In the returned result each page's total_scorecards and            *)
(* passed_scorecards are the sums over the sections the page lists, and    *)
(* the playbook's totals and score are those of the sections present in    *)
(* the pages: a section the second pass removed is not counted.            *)
(***************************************************************************)
\* the sum of field over the sections the pages list
RECURSIVE SumOverPages(_, _)
SumOverPages(pages, field) ==
    IF pages = <<>> THEN 0
    ELSE SumOf(Head(pages).sections, field) + SumOverPages(Tail(pages), field)

C27_TotalsOfReturnedSections ==
    pc = "done" =>
       /\ \A p \in 1..Len(pages_results) :
             /\ pages_results[p].total_scorecards =
                   SumOf(pages_results[p].sections, "total_scorecards")
             /\ pages_results[p].passed_scorecards =
                   SumOf(pages_results[p].sections, "passed_scorecards")
       /\ result.total_scorecards = SumOverPages(pages_results, "total_scorecards")
       /\ result.passed_scorecards = SumOverPages(pages_results, "passed_scorecards")
       /\ result.score = Score(SumOverPages(pages_results, "passed_scorecards"),
                               SumOverPages(pages_results, "total_scorecards"))
(***************************************************************************)
(* C29. Passing and completeness are independent: a rule whose condition   *)
(* is truthy although it touched missing or null data has passed = TRUE    *)
(* with status "incomplete"; a section's passed_scorecards is the number   *)
(* of its rules with passed true, whatever their status, its score is the  *)
(* rounded percentage of that number, and after pass one the totals of the *)
(* pages and of the playbook are the sums of these numbers.                *)
(***************************************************************************)
\* the rule results of a section with passed true
PassedRules(s) == {i \in 1..Len(s.scorecards) : s.scorecards[i].passed}

\* the condition of a rule result, evaluated on its own over the report
ConditionAlone(r) ==
    jsonLogic(r.condition, TrackedData(raw_context, report), NewTracker)

MaxRules == 200

InitScore ==
    /\ \E total \in 0..MaxRules :
          \E passed \in 0..total :
             tally = [passed |-> passed, total |-> total]
    /\ tally_score = <<>>
    /\ report = ReportEmpty
    /\ raw_context = <<>>
    /\ NoCallRunning
    /\ TrackerIdle
    /\ ResolveIdle
    /\ SkopeoIdle
    /\ ClientIdle

\* "score": round(passed_count / total * 100) if total else 0
ComputeScore ==
    /\ tally_score = <<>>
    /\ tally_score' = << Score(tally.passed, tally.total) >>
    /\ UNCHANGED << evaluateVars, trackerVars, resolveVars, skopeoVars, clientVars,
                    tally >>

NextScore == ComputeScore

SpecScore == InitScore /\ [][NextScore]_vars

(***************************************************************************)
(* C28. In every result, for each section, each page and the playbook,     *)
(* 0 <= passed_scorecards <= total_scorecards and 0 <= score <= 100; every *)
(* levels_summary and tags_summary entry has 1 <= total,                   *)
(* 0 <= passed <= total and 0 <= percentage <= 100; and a score is 100     *)
(* exactly when total_scorecards > 0 and every counted rule passed.        *)
(***************************************************************************)
\* the bounds of a score and its totals, and when the score is 100
WithinBounds(score, passed, total) ==
    /\ 0 <= passed /\ passed <= total
    /\ 0 <= score /\ score <= 100
    /\ score = 100 <=> (total > 0 /\ passed = total)

\* the bounds of the entries of a levels_summary or a tags_summary
EntriesWithinBounds(summary) ==
    \A k \in DOMAIN summary :
       /\ 1 <= summary[k].total
       /\ 0 <= summary[k].passed /\ summary[k].passed <= summary[k].total
       /\ 0 <= summary[k].percentage /\ summary[k].percentage <= 100

\* the bounds over what evaluate holds
ResultsWithinBounds ==
    /\ \A s \in SectionResults :
          /\ WithinBounds(s.score, s.passed_scorecards, s.total_scorecards)
          /\ EntriesWithinBounds(s.levels_summary)
          /\ EntriesWithinBounds(s.tags_summary)
    /\ \A p \in 1..Len(pages_results) :
          WithinBounds(pages_results[p].score, pages_results[p].passed_scorecards,
                       pages_results[p].total_scorecards)
    /\ pc \in {"pass2", "done"} =>
          WithinBounds(result.score, result.passed_scorecards,
                       result.total_scorecards)

C28_Bounds ==
    /\ ResultsWithinBounds
    /\ tally_score # <<>> =>
          WithinBounds(tally_score[1], tally.passed, tally.total)
(***************************************************************************)
(* SkopeoAnalyzer.analyze on a manifest list: one future per entry on a    *)
(* ThreadPoolExecutor, read back in the order of submission                *)
(***************************************************************************)
\* the most entries of a manifest list
MaxEntries == 11

\* min(10, ...)
PoolCap == 10

\* an entry of "manifests": its digest, whether its "platform" is a mapping
\* (platform_info.get raises AttributeError on a null one), and whether
\* skopeo inspect succeeds on it
Entry(i) ==
    [digest |-> i, platform_is_mapping |-> i % 4 # 2, skopeo_succeeds |-> i % 3 # 0]

\* the manifest lists: every length, every fourth entry from the second with
\* a null platform, every third one unreachable for skopeo
Manifests == {[i \in 1..n |-> Entry(i)] : n \in 0..MaxEntries}

Min(a, b) == IF a < b THEN a ELSE b

\* max_workers = min(10, len(entries) or 1)
max_workers == Min(PoolCap, IF Len(entries) # 0 THEN Len(entries) ELSE 1)

\* _inspect_platform: it raises on a platform that is not a mapping; a
\* skopeo failure is caught inside, the user is then "unknown"
InspectionRaises(entry) == ~entry.platform_is_mapping
_inspect_platform(entry) ==
    [digest |-> entry.digest,
     user |-> IF entry.skopeo_succeeds THEN "known" ELSE "unknown"]

\* the futures that are done
Done == (1..started) \ running

InitSkopeo ==
    /\ entries \in Manifests
    /\ analyze_pc = "submit"
    /\ submitted = 0
    /\ started = 0
    /\ running = {}
    /\ collected = 0
    /\ platforms = <<>>
    /\ overtaken = FALSE
    /\ report = ReportEmpty
    /\ raw_context = <<>>
    /\ NoCallRunning
    /\ TrackerIdle
    /\ ResolveIdle
    /\ ScoreIdle
    /\ ClientIdle

beforeSkopeo ==
    << evaluateVars, trackerVars, resolveVars, scoreVars, clientVars, entries >>

\* futures.append(executor.submit(self._inspect_platform, ...))
Submit ==
    /\ analyze_pc = "submit"
    /\ submitted < Len(entries)
    /\ submitted' = submitted + 1
    /\ UNCHANGED << beforeSkopeo, analyze_pc, started, running, collected,
                    platforms, overtaken >>

\* "for entry in entries" ends
EndSubmit ==
    /\ analyze_pc = "submit"
    /\ submitted = Len(entries)
    /\ analyze_pc' = "collect"
    /\ UNCHANGED << beforeSkopeo, submitted, started, running, collected,
                    platforms, overtaken >>

\* StartInspection for a pool with a worker for every future
StartInspectionUnbounded ==
    /\ started < submitted
    /\ started' = started + 1
    /\ running' = running \cup {started + 1}
    /\ UNCHANGED << beforeSkopeo, analyze_pc, submitted, collected, platforms,
                    overtaken >>

\* a worker of the pool takes the next future off the queue: the pool has
\* max_workers workers and each runs one call at a time
StartInspection ==
    /\ started < submitted
    /\ Cardinality(running) < max_workers
    /\ started' = started + 1
    /\ running' = running \cup {started + 1}
    /\ UNCHANGED << beforeSkopeo, analyze_pc, submitted, collected, platforms,
                    overtaken >>

\* a call of _inspect_platform ends, by a return or by an exception
FinishInspection ==
    /\ \E k \in running :
          /\ running' = running \ {k}
          /\ overtaken' = (overtaken \/ \E j \in running : j < k)
    /\ UNCHANGED << beforeSkopeo, analyze_pc, submitted, started, collected,
                    platforms >>

\* "for future in futures": future.result() of the next future, once it is
\* done; "except Exception" logs and goes on
Collect ==
    /\ analyze_pc = "collect"
    /\ collected < submitted
    /\ collected + 1 \in Done
    /\ platforms' = IF InspectionRaises(entries[collected + 1]) THEN platforms
                    ELSE Append(platforms, _inspect_platform(entries[collected + 1]))
    /\ collected' = collected + 1
    /\ UNCHANGED << beforeSkopeo, analyze_pc, submitted, started, running,
                    overtaken >>

\* the loop over the futures ends and the report is returned
ReturnReport ==
    /\ analyze_pc = "collect"
    /\ collected = submitted
    /\ analyze_pc' = "returned"
    /\ UNCHANGED << beforeSkopeo, submitted, started, running, collected,
                    platforms, overtaken >>

NextSkopeo ==
    \/ Submit
    \/ EndSubmit
    \/ StartInspection
    \/ FinishInspection
    \/ Collect
    \/ ReturnReport

SpecSkopeo == InitSkopeo /\ [][NextSkopeo]_vars

(***************************************************************************)
(* C26. One inspection is submitted per entry of the manifest list, on a   *)
(* pool of min(10, number of entries) workers: never more than 10          *)
(* inspections run at once; the platforms list follows the order of the    *)
(* entries whatever the order in which the inspections end, and an entry   *)
(* whose inspection raises is left out without failing the analysis.       *)
(***************************************************************************)
\* the results of the entries whose inspection returns, in entry order
InspectedInOrder ==
    LET returns == SelectSeq(entries, LAMBDA e : ~InspectionRaises(e))
    IN [i \in 1..Len(returns) |-> _inspect_platform(returns[i])]

C26_BoundedFanOutInEntryOrder ==
    /\ Cardinality(running) <= Min(PoolCap, Len(entries))
    /\ running \subseteq 1..submitted
    /\ submitted <= Len(entries)
    /\ analyze_pc \in {"collect", "returned"} => submitted = Len(entries)
    /\ analyze_pc # "raised"
    /\ analyze_pc = "returned" =>
          /\ platforms = InspectedInOrder
          /\ running = {}

\* returned for a manifest list of more entries than the pool has workers:
\* some inspection ended before one submitted earlier, entries were left
\* out, and one whose skopeo calls failed is listed
C26_Witness ==
    /\ analyze_pc = "returned"
    /\ Len(entries) > PoolCap
    /\ overtaken
    /\ Len(platforms) < Len(entries)
    /\ Len(platforms) > 0
    /\ \E i \in 1..Len(platforms) : platforms[i].user = "unknown"
(***************************************************************************)
(* RegistryClient._get, _request and _authenticate: the calls of _get of   *)
(* one client, one after the other, against a registry and a token realm   *)
(* that answer as they like                                                *)
(***************************************************************************)
\* the most calls of _get on the client
MaxCalls == 3

\* the status of no response: the session raised (connection error, timeout)
NoResponse == 0

\* what a GET to the registry gives: a response with a status code, or none
Statuses == {200, 401, 404, NoResponse}

\* the status of the realm's response when raise_for_status() raises
RealmError == 403

\* token_resp.json().get("token"): no "token" key, an empty one, a token
TokenReplies == {NoneV, StrV(0), StrV(5), StrV(6)}

\* req_headers["Authorization"] of _request: the token if self._token is
\* truthy, no header otherwise
Authorization == IF Truthy(_token) THEN _token ELSE NoneV

\* a request the session sent, within call c, and what came back: the
\* status and, from the realm, the "token" of the body
Sent(c, to, bearer, status, token) ==
    [call |-> c, to |-> to, bearer |-> bearer, status |-> status, token |-> token]

\* how a call ends on the registry's answer
Ending(status) ==
    IF status = 200 THEN "returned"
    ELSE IF status = NoResponse THEN "RequestException"
    ELSE "RegistryError"

InitClient ==
    /\ ClientIdle
    /\ report = ReportEmpty
    /\ raw_context = <<>>
    /\ NoCallRunning
    /\ TrackerIdle
    /\ ResolveIdle
    /\ ScoreIdle
    /\ SkopeoIdle

beforeClient == << evaluateVars, trackerVars, resolveVars, scoreVars, skopeoVars >>

\* self._get(path) is called
CallGet ==
    /\ get_pc \in {"idle", "ended"}
    /\ calls < MaxCalls
    /\ calls' = calls + 1
    /\ get_pc' = "first"
    /\ UNCHANGED << beforeClient, _token, requests_log, outcomes >>

\* resp = self._request(url, headers); a 401 goes on to _authenticate, any
\* other status ends the call: 200 returns, the others raise RegistryError
FirstRequest ==
    /\ get_pc = "first"
    /\ \E status \in Statuses :
          /\ requests_log' =
                Append(requests_log,
                       Sent(calls, "registry", Authorization, status, NoneV))
          /\ IF status = 401
             THEN get_pc' = "authenticate" /\ outcomes' = outcomes
             ELSE /\ get_pc' = "ended"
                  /\ outcomes' = Append(outcomes, Ending(status))
    /\ UNCHANGED << beforeClient, _token, calls >>

\* self._authenticate(resp): a GET to the realm; raise_for_status() raises
\* on an error status, otherwise self._token = token_resp.json().get("token")
Authenticate ==
    /\ get_pc = "authenticate"
    /\ \/ /\ requests_log' =
                Append(requests_log, Sent(calls, "realm", NoneV, RealmError, NoneV))
          /\ get_pc' = "ended"
          /\ outcomes' = Append(outcomes, "HTTPError")
          /\ _token' = _token
       \/ \E token \in TokenReplies :
             /\ requests_log' =
                   Append(requests_log, Sent(calls, "realm", NoneV, 200, token))
             /\ _token' = token
             /\ get_pc' = "retry"
             /\ outcomes' = outcomes
    /\ UNCHANGED << beforeClient, calls >>

\* resp = self._request(url, headers) after _authenticate, then the status
\* test: 200 returns, every other status raises RegistryError
RetryRequest ==
    /\ get_pc = "retry"
    /\ \E status \in Statuses :
          /\ requests_log' =
                Append(requests_log,
                       Sent(calls, "registry", Authorization, status, NoneV))
          /\ outcomes' = Append(outcomes, Ending(status))
    /\ get_pc' = "ended"
    /\ UNCHANGED << beforeClient, _token, calls >>

NextClient ==
    \/ CallGet
    \/ FirstRequest
    \/ Authenticate
    \/ RetryRequest

SpecClient == InitClient /\ [][NextClient]_vars

(***************************************************************************)
(* C30. A call of _get sends at most two requests to the registry: it      *)
(* authenticates at most once, and sends the second request only when the  *)
(* first response is 401; when the last response is not 200 the call       *)
(* raises RegistryError, a second 401 included; and once a bearer token    *)
(* has been obtained, every later request of the client carries a token.   *)
(***************************************************************************)
\* the positions in the log of the requests of call c to a destination
RequestsOf(c, to) ==
    {i \in 1..Len(requests_log) :
        requests_log[i].call = c /\ requests_log[i].to = to}

\* the last response of the registry in call c (the call sent a request)
LastResponse(c) ==
    requests_log[CHOOSE i \in RequestsOf(c, "registry") :
                    \A j \in RequestsOf(c, "registry") : j <= i].status

\* at most two requests and one authentication; a second request exactly
\* after a first 401 and an authentication that gave an answer
AtMostOneRetry ==
    \A c \in 1..calls :
       /\ Cardinality(RequestsOf(c, "registry")) <= 2
       /\ Cardinality(RequestsOf(c, "realm")) <= 1
       /\ \A i \in RequestsOf(c, "registry"), j \in RequestsOf(c, "registry") :
             i < j => (requests_log[i].status = 401 /\ RequestsOf(c, "realm") # {})
       /\ \A i \in RequestsOf(c, "realm") :
             \E j \in RequestsOf(c, "registry") : j < i /\ requests_log[j].status = 401

\* a call that ended on a response: RegistryError unless the status is 200
RaisesUnlessOk ==
    \A c \in 1..Len(outcomes) :
       outcomes[c] \in {"returned", "RegistryError"} =>
          (outcomes[c] = "RegistryError" <=> LastResponse(c) # 200)

\* a request to the registry made after the realm gave a token carries one
TokenStays ==
    \A i \in 1..Len(requests_log), j \in 1..Len(requests_log) :
       (/\ i < j
        /\ requests_log[i].to = "realm"
        /\ Truthy(requests_log[i].token)
        /\ requests_log[j].to = "registry")
          => requests_log[j].bearer # NoneV

C30_AtMostOneRetryAndTokenStays ==
    /\ AtMostOneRetry
    /\ RaisesUnlessOk
    /\ TokenStays
====
